---------------------------- MODULE Spec2Model ----------------------------
(***************************************************************************)
(* Model of yizha/filemanager: the Load pipeline (walker -> path queue ->  *)
(* loader pool -> status output queue) and the Store pipeline (input queue *)
(* -> saver pool -> content-addressed target -> status output queue) of    *)
(* src/filesystem/fileinfo.go, with the shared ProcessStatus of            *)
(* src/unnamed/part_004 and the Hash of src/util/hash.go.                  *)
(*                                                                         *)
(* Strings are sequences of one-character strings, so that slicing         *)
(* (hex[0:2]), joining and filepath.Base are computed, not assumed.        *)
(* Unbuffered Go channels are rendezvous: a send and the matching receive  *)
(* are one step, enabled only when both sides stand at the channel.        *)
(***************************************************************************)
EXTENDS Integers, Sequences, FiniteSets, Bags, TLC

(* ------------------------------ bounds --------------------------------- *)

\* largest pool size explored (New admits MinPool..MaxPool)
MaxWorkers == 2

\* number of directory entries a source tree may hold (entry 0 is the root)
MaxEntries == 3

\* number of Blobs the caller of Store sends on the input queue
MaxBlobs == 2

\* number of failing file-system calls injected in one run
MaxFaults == 1

(* -------------------------- program constants -------------------------- *)

MinPool == 1
MaxPool == 20

(* ------------------------------ strings -------------------------------- *)

Sep == "/"

\* Option values: a Go nil is <<>>, a present value x is <<x>>
None == <<>>
Some(x) == <<x>>

RECURSIVE JoinFrom(_, _)
JoinFrom(elems, i) ==
    IF i > Len(elems) THEN <<>>
    ELSE LET rest == JoinFrom(elems, i + 1)
         IN  IF elems[i] = <<>> THEN rest
             ELSE IF rest = <<>> THEN elems[i]
             ELSE IF elems[i][Len(elems[i])] = Sep THEN elems[i] \o rest
             ELSE elems[i] \o <<Sep>> \o rest

\* filepath.Join: the non-empty elements, separated by one separator
Join(elems) == JoinFrom(elems, 1)

RECURSIVE StripTrailingSep(_)
StripTrailingSep(p) ==
    IF Len(p) > 0 /\ p[Len(p)] = Sep
    THEN StripTrailingSep(SubSeq(p, 1, Len(p) - 1))
    ELSE p

LastSep(p) ==
    LET S == {i \in 1..Len(p) : p[i] = Sep}
    IN  IF S = {} THEN 0 ELSE CHOOSE i \in S : \A j \in S : j <= i

\* filepath.Base: the last element of the path
Base(path) ==
    IF path = <<>> THEN <<".">>
    ELSE LET p == StripTrailingSep(path)
             q == SubSeq(p, LastSep(p) + 1, Len(p))
         IN  IF q = <<>> THEN <<Sep>> ELSE q

\* filepath.Dir: all but the last element of the path
Dir(path) ==
    LET k == LastSep(path)
    IN  IF k = 0 THEN <<".">>
        ELSE IF k = 1 THEN <<Sep>>
        ELSE SubSeq(path, 1, k - 1)

\* Go's s[lo:hi]
Slice(s, lo, hi) == SubSeq(s, lo + 1, hi)

(* ------------------------------- Hash ---------------------------------- *)

HexDigits ==
    <<"0", "1", "2", "3", "4", "5", "6", "7",
      "8", "9", "a", "b", "c", "d", "e", "f">>

RECURSIVE EncodeToString(_)
\* hex.EncodeToString: two lower-case hex digits per byte
EncodeToString(data) ==
    IF data = <<>> THEN <<>>
    ELSE <<HexDigits[(Head(data) \div 16) + 1], HexDigits[(Head(data) % 16) + 1]>>
         \o EncodeToString(Tail(data))

Sha1Alg == <<"s", "h", "a", "1">>

\* util.NewSha1Hash: the lazily derived forms start empty
NewSha1Hash(data) == [alg |-> Sha1Alg, data |-> data, hex |-> <<>>, str |-> <<>>]

\* Hash.Algorithm
Algorithm(h) == h.alg

\* Hash.Hex: the cached form if there is one, else the encoding of the digest
Hex(h) == IF h.hex = <<>> THEN EncodeToString(h.data) ELSE h.hex

\* Hash.String: "algorithm:hex"
HashString(h) == IF h.str = <<>> THEN h.alg \o <<":">> \o Hex(h) ELSE h.str

RECURSIVE Mix(_, _)
Mix(bytes, acc) ==
    IF bytes = <<>> THEN acc
    ELSE Mix(Tail(bytes), (acc * 31 + Head(bytes) + 1) % 65536)

\* sha1.Sum: a digest of the content (four bytes stand for the twenty)
Sha1Sum(bytes) ==
    LET m == Mix(bytes, 7)
    IN  <<m % 256, (m \div 256) % 256, (m * 7 + 3) % 256, (m * 13 + Len(bytes)) % 256>>


(* ------------------------------- state --------------------------------- *)

VARIABLES
    workerCnt,  \* FileSystem.maxLoader (load) or FileSystem.maxSaver (store)
    sts,        \* the run's ProcessStatus (typ is "load" or "store")
    wg,         \* the sync.WaitGroup counter of load() / store()
    mainpc,     \* position of the load() / store() goroutine
    worker,     \* per worker id: position, the item in hand
    out,        \* bag of Blobs received from sts.blobChan by its reader
    faults,     \* failing file-system calls so far in this run
    log,        \* bag of the run's log lines at info and error level
    tree,       \* load: the source tree, per entry its kind and name
    walk,       \* load: the walker (position, recursion stack, entry in hand)
    fileCh,     \* load: the path queue (closes, paths pushed)
    input,      \* store: the Blobs the caller sends, in the caller's hands
    inCh,       \* store: the input queue (indices sent, closed)
    disk,       \* store: the target's files, path -> content
    disk0,      \* store: the target as it was before the first run
    written,    \* store: every path a saver has opened for writing
    rerun,      \* store: whether this is the second run into the same target
    first,      \* store: the first run's final counters, once it is over
    newCall,    \* the call of New: its arguments and, once it returned, its results
    files,      \* detect: the batch of FileBlobs of the task
    path2meta,  \* detect: the task's map from path to BlobMeta
    fileCmd,    \* detect: what the two runs of the file command will print
    lines,      \* detect: the lines of the current output not yet parsed
    toEmit,     \* detect: the keys the final range over path2meta has left
    dpc,        \* detect: position of the task
    midCh,      \* detect: the results sent on the result stream, in order
    dinCh,      \* DetectMimeType: the input stream (Blobs, next to send, closed)
    disp,       \* dispatch: position, batch, the array files and the index i
    arrays,     \* dispatch: the arrays made so far, by their number
    tasks,      \* the detection tasks started, in the order of their start
    dwg,        \* dispatch: the sync.WaitGroup counter
    midClosed,  \* DetectMimeType: how often midCh was closed
    outp,       \* output: position and the result in hand
    outCh,      \* DetectMimeType: what the caller received from outCh, and its closes
    reader,     \* JSONStr: a caller's position, what it has read, the JSON returned
    hashCall,   \* a digest, a hex string for it and the Hash objects made of them
    fblob,      \* a source FileBlob, its file and the last call of its methods
    dr          \* main: the store run fed by a load run (its status, wg, savers)

pipeVars == <<dinCh, disp, arrays, tasks, dwg, midClosed, outp, outCh>>

vars ==
    <<workerCnt, sts, wg, mainpc, worker, out, faults, log,
      tree, walk, fileCh, input, inCh, disk, disk0, written, rerun, first,
      newCall, files, path2meta, fileCmd, lines, toEmit, dpc, midCh, pipeVars,
      reader, hashCall, fblob, dr>>

detVars ==
    <<files, path2meta, fileCmd, lines, toEmit, dpc, midCh, pipeVars, reader,
      hashCall, fblob, dr>>

confVars == <<workerCnt, newCall>>
loadVars == <<tree, walk, fileCh>>
storeVars == <<input, inCh, disk, disk0, written, rerun, first>>

Workers == 1..workerCnt

(* --------------------------- ProcessStatus ----------------------------- *)

\* blob.NewProcessStatus: zero counters, open channels, done = 0
NewProcessStatus(t) ==
    [typ |-> t, count |-> 0, size |-> 0, skipCount |-> 0, skipSize |-> 0,
     errorCount |-> 0, finishTimeSet |-> FALSE, duration |-> "-1", done |-> 0,
     blobChanCloses |-> 0, doneChanCloses |-> 0, panics |-> 0]

NewLoadStatus == NewProcessStatus("load")
NewStoreStatus == NewProcessStatus("store")

\* an increment of skipSize that is lost
AddSkipSizeLost(s, n) == s

\* an increment of count that is applied twice
AddCountTwice(s, n) == [s EXCEPT !.count = @ + n + n]

\* an AddErrorCount that takes its argument off the counter
AddErrorCountDown(s, n) == [s EXCEPT !.errorCount = @ - n]

\* atomic.AddInt64 on one counter
AddCount(s, n) == [s EXCEPT !.count = @ + n]
AddSize(s, n) == [s EXCEPT !.size = @ + n]
AddSkipCount(s, n) == [s EXCEPT !.skipCount = @ + n]
AddSkipSize(s, n) == [s EXCEPT !.skipSize = @ + n]
AddErrorCount(s, n) == [s EXCEPT !.errorCount = @ + n]

\* close(ch): closing a closed channel panics
CloseChan(s, ch) ==
    IF ch = "blob"
    THEN [s EXCEPT !.blobChanCloses = @ + 1,
                   !.panics = IF s.blobChanCloses > 0 THEN @ + 1 ELSE @]
    ELSE [s EXCEPT !.doneChanCloses = @ + 1,
                   !.panics = IF s.doneChanCloses > 0 THEN @ + 1 ELSE @]

\* ProcessStatus.Finish, one statement per step
FinishNext(pc) ==
    CASE pc = "finishTime" -> "finishDone"
      [] pc = "finishDone" -> "finishCloseBlob"
      [] pc = "finishCloseBlob" -> "finishCloseDone"
      [] pc = "finishCloseDone" -> "returned"

\* a Finish that closes the output queue where it should close doneChan
FinishStepClosesBlobTwice(s, pc) ==
    CASE pc = "finishTime" -> [s EXCEPT !.finishTimeSet = TRUE]
      [] pc = "finishDone" -> [s EXCEPT !.done = 1]
      [] pc = "finishCloseBlob" -> CloseChan(s, "blob")
      [] pc = "finishCloseDone" -> CloseChan(s, "blob")

\* a Finish that closes doneChan first and the output queue after it
FinishStepDoneChanFirst(s, pc) ==
    CASE pc = "finishTime" -> [s EXCEPT !.finishTimeSet = TRUE]
      [] pc = "finishDone" -> [s EXCEPT !.done = 1]
      [] pc = "finishCloseBlob" -> CloseChan(s, "done")
      [] pc = "finishCloseDone" -> CloseChan(s, "blob")

FinishStep(s, pc) ==
    CASE pc = "finishTime" -> [s EXCEPT !.finishTimeSet = TRUE]
      [] pc = "finishDone" -> [s EXCEPT !.done = 1]
      [] pc = "finishCloseBlob" -> CloseChan(s, "blob")
      [] pc = "finishCloseDone" -> CloseChan(s, "done")

FinishPcs == {"finishTime", "finishDone", "finishCloseBlob", "finishCloseDone"}

Finish ==
    /\ mainpc \in FinishPcs
    /\ sts' = FinishStep(sts, mainpc)
    /\ mainpc' = FinishNext(mainpc)
    /\ UNCHANGED <<log, confVars, detVars, wg, worker, out, faults, loadVars, storeVars>>

(* ------------------------------ FileBlob ------------------------------- *)

\* util.PathToUrl: file:// and the absolute path
PathToUrl(path) == <<"f", "i", "l", "e", ":", Sep, Sep>> \o path

\* filesystem.NewFileBlob: path, url and name only, nothing loaded
NewFileBlob(path) ==
    [path |-> path, url |-> PathToUrl(path), name |-> Base(path),
     blob |-> None, size |-> 0, hash |-> None]

\* a Load that takes content and size and leaves the hash for later
LoadWithoutHash(f, bytes) == [f EXCEPT !.blob = Some(bytes), !.size = Len(bytes)]

\* FileBlob.Load on readable content: content, size and hash together
Load(f, bytes) ==
    [f EXCEPT !.blob = Some(bytes), !.size = Len(bytes),
              !.hash = Some(NewSha1Hash(Sha1Sum(bytes)))]

\* FileBlob.Free
Free(f) == [f EXCEPT !.blob = None]

IdleWorker == [pc |-> "none", item |-> None, path |-> <<>>, err |-> ""]

\* `range` on a channel several workers of a pool wait on: the workers
\* that wait hold nothing and are alike, so which of them the runtime
\* wakes makes no difference to the run; the one with the lowest id is
\* taken to be the one woken
NextReceiver(w) == \A t \in Workers : t < w => worker[t].pc # "recv"

\* one line of the zerolog output: the message and the path it is about
LogLine(msg, path) == [msg |-> msg, path |-> path]
Logged(l, msg, path) == l (+) SetToBag({LogLine(msg, path)})


(* --------------------------- the source tree --------------------------- *)

\* fs.root of the source, an absolute path
SourceRoot == <<Sep, "s">>

Entries == 1..MaxEntries

\* entries 1 and 2 lie in the root, entries 3 and 4 in entry 1, and so on
Parent(n) == (n - 1) \div 2

\* the one-character strings "1", "2", ... name the entries
EntryChar(n) == ToString(n)

\* a name is hidden when it starts with a dot
EntryNames(n) == {<<EntryChar(n)>>, <<".", EntryChar(n)>>}

\* the bytes of the file at entry n (sizes 1, 2, 0, 1, ...)
FileContent(n) == [i \in 1..(n % 3) |-> 1 + ((n + i) % 2)]

\* an entry exists only inside a directory; an absent entry has no hidden name
TreeOK(t) ==
    \A n \in Entries :
        /\ t[n].kind # "none" => (Parent(n) = 0 \/ t[Parent(n)].kind = "dir")
        /\ t[n].kind = "none" => t[n].name = <<EntryChar(n)>>

Trees ==
    {t \in [Entries -> [kind : {"none", "file", "dir"},
                        name : UNION {EntryNames(n) : n \in Entries}]] :
        /\ \A n \in Entries : t[n].name \in EntryNames(n)
        /\ TreeOK(t)}

\* Readdir of directory d
Children(d) == {n \in Entries : Parent(n) = d /\ tree[n].kind # "none"}

RECURSIVE EntryPath(_)
EntryPath(n) ==
    IF n = 0 THEN SourceRoot ELSE Join(<<EntryPath(Parent(n)), tree[n].name>>)

\* the file a path names
FileAt(path) == CHOOSE n \in Entries : EntryPath(n) = path

(* ------------------------------- walker -------------------------------- *)

\* a skip test that knows the empty name only
skipDotFileEmptyNameOnly(path) == Len(Base(path)) <= 0

\* skipDotFile: the base name is empty or starts with "."
skipDotFile(path) ==
    LET name == Base(path)
    IN  IF Len(name) <= 0 THEN TRUE
        ELSE IF Slice(name, 0, 1) = <<".">> THEN TRUE
        ELSE FALSE

\* FileSystem.skip as New sets it
skip(path) == skipDotFile(path)

Top(stack) == stack[Len(stack)]
Pop(stack) == SubSeq(stack, 1, Len(stack) - 1)

\* return from the innermost walkDir call into the caller's loop
WalkReturn(w) ==
    [w EXCEPT !.stack = Pop(@),
              !.pc = IF Len(w.stack) = 1 THEN "done" ELSE "iter"]

WalkSetTodo(w, S) ==
    [w EXCEPT !.stack[Len(w.stack)].todo = S, !.pc = "iter"]

\* walkDir: os.Open and Readdir(-1) of the directory
walkDir_Open ==
    /\ sts.typ = "load" /\ mainpc = "walk" /\ walk.pc = "open"
    /\ \/ /\ walk' = WalkSetTodo(walk, Children(Top(walk.stack).dir))
          /\ UNCHANGED <<sts, faults, log>>
       \/ /\ faults < MaxFaults
          /\ faults' = faults + 1
          /\ sts' = AddErrorCount(sts, 1)
          /\ \/ /\ walk' = WalkReturn(walk)
                /\ log' = Logged(log, "open dir error", Top(walk.stack).path)
             \/ /\ \E S \in SUBSET Children(Top(walk.stack).dir) :
                        walk' = WalkSetTodo(walk, S)
                /\ log' = Logged(log, "read dir error", Top(walk.stack).path)
    /\ UNCHANGED <<confVars, detVars, wg, mainpc, worker, out, tree, fileCh, storeVars>>

\* a walker that counts a skipped directory and walks it all the same
WalkAfterSkipDescends(w, n, fpath) ==
    IF tree[n].kind = "dir"
    THEN [w EXCEPT !.stack = Append(@, [path |-> fpath, dir |-> n, todo |-> {}]),
                   !.pc = "open"]
    ELSE [w EXCEPT !.pc = "skipSize"]

\* walkDir: a skipped entry is not descended into and not pushed; a
\* skipped file still has its size added
WalkAfterSkip(w, n, fpath) ==
    [w EXCEPT !.pc = IF tree[n].kind = "dir" THEN "iter" ELSE "skipSize"]

\* walkDir: a directory is walked, a file is sent on fileCh
WalkAfterKeep(w, n, fpath) ==
    IF tree[n].kind = "dir"
    THEN [w EXCEPT !.stack = Append(@, [path |-> fpath, dir |-> n, todo |-> {}]),
                   !.pc = "open"]
    ELSE [w EXCEPT !.pc = "send"]

\* walkDir: one pass of the loop over fileInfoArray, up to its first
\* effect on shared state
walkDir_Entry ==
    /\ sts.typ = "load" /\ mainpc = "walk" /\ walk.pc = "iter"
    /\ \E n \in Top(walk.stack).todo :
        LET fpath == Join(<<Top(walk.stack).path, tree[n].name>>)
            rest == [walk EXCEPT !.stack[Len(walk.stack)].todo = @ \ {n},
                                 !.cur = Some([entry |-> n, path |-> fpath])]
        IN  IF skip(fpath)
            THEN /\ sts' = AddSkipCount(sts, 1)
                 /\ walk' = WalkAfterSkip(rest, n, fpath)
                 /\ log' = IF tree[n].kind = "dir"
                           THEN Logged(log, "skip dir", fpath) ELSE log
            ELSE /\ sts' = sts
                 /\ walk' = WalkAfterKeep(rest, n, fpath)
                 /\ log' = log
    /\ UNCHANGED <<confVars, detVars, wg, mainpc, worker, out, faults, tree, fileCh, storeVars>>

\* walkDir: sts.AddSkipSize(fi.Size()) of a skipped file
walkDir_SkipSize ==
    /\ sts.typ = "load" /\ mainpc = "walk" /\ walk.pc = "skipSize"
    /\ sts' = AddSkipSize(sts, Len(FileContent(walk.cur[1].entry)))
    /\ log' = Logged(log, "skip file", walk.cur[1].path)
    /\ walk' = [walk EXCEPT !.pc = "iter"]
    /\ UNCHANGED <<confVars, detVars, wg, mainpc, worker, out, faults, tree, fileCh, storeVars>>

\* walkDir: the loop is over, the call returns
walkDir_Return ==
    /\ sts.typ = "load" /\ mainpc = "walk" /\ walk.pc = "iter"
    /\ Top(walk.stack).todo = {}
    /\ walk' = WalkReturn(walk)
    /\ UNCHANGED <<log, confVars, detVars, sts, wg, mainpc, worker, out, faults, tree, fileCh,
                   storeVars>>


(* ----------------------------- loader pool ----------------------------- *)

\* a send on a closed channel panics; a worker standing at its send on
\* sts.blobChan after the close is that panic
SendOnClosed(w) == worker[w].pc = "send" /\ sts.blobChanCloses > 0

\* a receive that leaves the path with the walker to be sent once more
loadFile_RecvAgain(l) ==
    /\ sts.typ = "load" /\ mainpc = "walk" /\ walk.pc = "send"
    /\ worker[l].pc = "recv"
    /\ NextReceiver(l)
    /\ fileCh.closes = 0
    /\ worker' = [worker EXCEPT ![l] = [IdleWorker EXCEPT
                                            !.pc = "load",
                                            !.path = walk.cur[1].path]]
    /\ walk' = [walk EXCEPT !.pc = IF walk.cur[1].path \in fileCh.pushed
                                   THEN "iter" ELSE "send"]
    /\ fileCh' = [fileCh EXCEPT !.pushed = @ \cup {walk.cur[1].path}]
    /\ UNCHANGED <<log, confVars, detVars, sts, wg, mainpc, out, faults, tree, storeVars>>

\* a loader that takes the next path while the Blob in its hands is unsent
loadFile_RecvBeforeSent(l) ==
    /\ sts.typ = "load" /\ mainpc = "walk" /\ walk.pc = "send"
    /\ worker[l].pc \in {"recv", "send"}
    /\ fileCh.closes = 0
    /\ worker' = [worker EXCEPT ![l] = [IdleWorker EXCEPT
                                            !.pc = "load",
                                            !.path = walk.cur[1].path]]
    /\ walk' = [walk EXCEPT !.pc = "iter"]
    /\ fileCh' = [fileCh EXCEPT !.pushed = @ \cup {walk.cur[1].path}]
    /\ UNCHANGED <<log, confVars, detVars, sts, wg, mainpc, out, faults, tree, storeVars>>

\* loadFile: `for fpath := range fileCh` receives what walkDir sends
loadFile_Recv(l) ==
    /\ sts.typ = "load" /\ mainpc = "walk" /\ walk.pc = "send"
    /\ worker[l].pc = "recv"
    /\ NextReceiver(l)
    /\ fileCh.closes = 0
    /\ worker' = [worker EXCEPT ![l] = [IdleWorker EXCEPT
                                            !.pc = "load",
                                            !.path = walk.cur[1].path]]
    /\ walk' = [walk EXCEPT !.pc = "iter"]
    /\ fileCh' = [fileCh EXCEPT !.pushed = @ \cup {walk.cur[1].path}]
    /\ UNCHANGED <<log, confVars, detVars, sts, wg, mainpc, out, faults, tree, storeVars>>

\* a loader that leaves its loop without wg.Done()
loadFile_ExitNoDone(l) ==
    /\ sts.typ = "load"
    /\ worker[l].pc = "recv"
    /\ NextReceiver(l)
    /\ fileCh.closes > 0
    /\ worker' = [worker EXCEPT ![l].pc = "exited"]
    /\ UNCHANGED <<log, confVars, detVars, sts, wg, mainpc, out, faults, loadVars, storeVars>>

\* loadFile: the range ends on the closed queue; defer wg.Done()
loadFile_Exit(l) ==
    /\ sts.typ = "load"
    /\ worker[l].pc = "recv"
    /\ NextReceiver(l)
    /\ fileCh.closes > 0
    /\ worker' = [worker EXCEPT ![l].pc = "exited"]
    /\ wg' = wg - 1
    /\ UNCHANGED <<log, confVars, detVars, sts, mainpc, out, faults, loadVars, storeVars>>

\* loadFile: NewFileBlob and blob.Load()
loadFile_Load(l) ==
    /\ sts.typ = "load"
    /\ worker[l].pc = "load"
    /\ \/ /\ worker' = [worker EXCEPT
                ![l].item = Some(Load(NewFileBlob(worker[l].path),
                                      FileContent(FileAt(worker[l].path)))),
                ![l].pc = "addCount"]
          /\ UNCHANGED faults
       \/ /\ faults < MaxFaults
          /\ faults' = faults + 1
          /\ worker' = [worker EXCEPT ![l].pc = "addError"]
    /\ UNCHANGED <<log, confVars, detVars, sts, wg, mainpc, out, loadVars, storeVars>>

\* a loader that tries the failed path once more instead of dropping it
loadFile_AddErrorCountAndRetry(l) ==
    /\ sts.typ = "load"
    /\ worker[l].pc = "addError"
    /\ sts' = AddErrorCount(sts, 1)
    /\ log' = Logged(log, "load", worker[l].path)
    /\ worker' = [worker EXCEPT ![l].pc = "load"]
    /\ UNCHANGED <<confVars, detVars, wg, mainpc, out, faults, loadVars, storeVars>>

\* loadFile: pr.AddErrorCount(1); continue
loadFile_AddErrorCount(l) ==
    /\ sts.typ = "load"
    /\ worker[l].pc = "addError"
    /\ sts' = AddErrorCount(sts, 1)
    /\ log' = Logged(log, "load", worker[l].path)
    /\ worker' = [worker EXCEPT ![l] = [IdleWorker EXCEPT !.pc = "recv"]]
    /\ UNCHANGED <<confVars, detVars, wg, mainpc, out, faults, loadVars, storeVars>>

\* loadFile: pr.AddCount(1)
loadFile_AddCount(l) ==
    /\ sts.typ = "load"
    /\ worker[l].pc = "addCount"
    /\ sts' = AddCount(sts, 1)
    /\ worker' = [worker EXCEPT ![l].pc = "addSize"]
    /\ UNCHANGED <<log, confVars, detVars, wg, mainpc, out, faults, loadVars, storeVars>>

\* loadFile: pr.AddSize(size)
loadFile_AddSize(l) ==
    /\ sts.typ = "load"
    /\ worker[l].pc = "addSize"
    /\ sts' = AddSize(sts, worker[l].item[1].size)
    /\ log' = Logged(log, "loaded", worker[l].path)
    /\ worker' = [worker EXCEPT ![l].pc = "send"]
    /\ UNCHANGED <<confVars, detVars, wg, mainpc, out, faults, loadVars, storeVars>>

\* a hand-over that takes the Blob of a worker that has not counted it yet
ReceiveUncounted(w) ==
    /\ worker[w].pc \in {"addCount", "send"}
    /\ sts.blobChanCloses = 0
    /\ out' = out (+) SetToBag({worker[w].item[1]})
    /\ worker' = [worker EXCEPT ![w] = [IdleWorker EXCEPT !.pc = "recv"]]
    /\ UNCHANGED <<log, confVars, detVars, sts, wg, mainpc, faults, loadVars, storeVars>>

\* `blobCh <- blob` of a loader or `outCh <- &FileBlob{...}` of a saver,
\* met by the reader of sts.Blob()
Receive(w) ==
    /\ worker[w].pc = "send"
    /\ sts.blobChanCloses = 0
    /\ out' = out (+) SetToBag({worker[w].item[1]})
    /\ worker' = [worker EXCEPT ![w] = [IdleWorker EXCEPT !.pc = "recv"]]
    /\ UNCHANGED <<log, confVars, detVars, sts, wg, mainpc, faults, loadVars, storeVars>>

(* -------------------------------- load --------------------------------- *)

StartWorkers == [w \in Workers |-> [IdleWorker EXCEPT !.pc = "recv"]]

\* load: make(chan string), wg.Add(loaderCnt), go loadFile(...) per loader
load_Start ==
    /\ sts.typ = "load" /\ mainpc = "start"
    /\ wg' = wg + workerCnt
    /\ worker' = StartWorkers
    /\ walk' = [pc |-> "open", cur |-> None,
                stack |-> <<[path |-> SourceRoot, dir |-> 0, todo |-> {}]>>]
    /\ mainpc' = "walk"
    /\ UNCHANGED <<log, confVars, detVars, sts, out, faults, tree, fileCh, storeVars>>

\* load: walkDir has returned; close(fileCh)
load_Close ==
    /\ sts.typ = "load" /\ mainpc = "walk" /\ walk.pc = "done"
    /\ fileCh' = [fileCh EXCEPT !.closes = @ + 1]
    /\ mainpc' = "wait"
    /\ UNCHANGED <<log, confVars, detVars, sts, wg, worker, out, faults, tree, walk, storeVars>>

\* a barrier armed for one worker too few
WaitReturnsOneEarly(n) == n <= 1

\* wg.Wait() returns when the counter is zero
WaitReturns(n) == n = 0

\* load: wg.Wait(), then sts.Finish()
load_Wait ==
    /\ sts.typ = "load" /\ mainpc = "wait"
    /\ WaitReturns(wg)
    /\ mainpc' = "finishTime"
    /\ UNCHANGED <<log, confVars, detVars, sts, wg, worker, out, faults, loadVars, storeVars>>


(* ------------------------------ the target ----------------------------- *)

\* fs.root of the target, an absolute path
TargetRoot == <<Sep, "t">>

\* the contents a Blob sent to Store may have
Corpus == {<<1>>, <<2, 1>>}

\* what a file found in the target before the first run may hold
Residue == {<<>>, <<1>>, <<2>>, <<2, 1>>}

\* the k-th Blob the caller sends: a loaded source file
InputBlob(k, bytes) ==
    Load(NewFileBlob(Join(<<SourceRoot, <<EntryChar(k)>>>>)), bytes)

Inputs ==
    UNION {[1..n -> {InputBlob(k, c) : k \in 1..n, c \in Corpus}] :
            n \in 0..MaxBlobs}

InputOK(in) == \A k \in 1..Len(in) : in[k].name = <<EntryChar(k)>>

\* a path that leaves out the four two-digit levels
BlobPathUnsharded(root, blobHash) ==
    Join(<<root, Algorithm(blobHash), Hex(blobHash)>>)

\* save: the sharded path of a Blob's hash under root
BlobPath(root, blobHash) ==
    LET alg == Algorithm(blobHash)
        hex == Hex(blobHash)
    IN  Join(<<root, alg, Slice(hex, 0, 2), Slice(hex, 2, 4), Slice(hex, 4, 6),
               Slice(hex, 6, 8), hex>>)

\* the content whose target path may be taken before the first run
Probed == <<1>>

\* the targets Store may find: empty, or one file at a path it will probe
Targets ==
    {<<>>} \cup
    {[p \in {BlobPath(TargetRoot, NewSha1Hash(Sha1Sum(Probed)))} |-> r] :
        r \in Residue}

\* a dedup check that looks at the existence of the file only
blobExistsOfAnySize(d, path, size) == path \in DOMAIN d

\* blobExists: a file is there and has that size
blobExists(d, path, size) == path \in DOMAIN d /\ Len(d[path]) = size

\* os.OpenFile(path, O_CREATE|O_WRONLY): creates an absent file, keeps a present one
OpenFile(d, path) ==
    IF path \in DOMAIN d THEN d ELSE [p \in DOMAIN d \cup {path} |-> IF p = path THEN <<>> ELSE d[p]]

\* a write of bytes at offset 0: what lies beyond them stays
WriteAt0(old, bytes) ==
    IF Len(bytes) >= Len(old) THEN bytes
    ELSE bytes \o SubSeq(old, Len(bytes) + 1, Len(old))

\* saveFile's io.Copy into the opened file
CopyTo(d, path, bytes) == [d EXCEPT ![path] = WriteAt0(d[path], bytes)]

\* a saver that moves the input Blob to the target instead of making a new one
RelocatedInPlace(b, blobPath) ==
    [b EXCEPT !.path = blobPath, !.url = PathToUrl(blobPath)]

\* save: the Blob sent on once stored
Relocated(b, blobPath) ==
    [path |-> blobPath, url |-> PathToUrl(blobPath), name |-> b.name,
     blob |-> None, size |-> b.size, hash |-> b.hash]

(* ------------------------------ saver pool ----------------------------- *)

\* save: `for blob := range inCh` receives the caller's next Blob and
\* derives blobSize and blobPath from it
save_Recv(s) ==
    /\ sts.typ = "store"
    /\ worker[s].pc = "recv"
    /\ NextReceiver(s)
    /\ ~inCh.closed /\ inCh.next <= Len(input)
    /\ worker' = [worker EXCEPT ![s] =
            [pc |-> "exists", item |-> Some(input[inCh.next]), err |-> "",
             path |-> BlobPath(TargetRoot, input[inCh.next].hash[1])]]
    /\ inCh' = [inCh EXCEPT !.next = @ + 1]
    /\ UNCHANGED <<log, confVars, detVars, sts, wg, mainpc, out, faults, loadVars,
                   input, disk, disk0, written, rerun, first>>

\* the caller of Store closes the input queue once everything is sent
Caller_Close ==
    /\ sts.typ = "store"
    /\ ~inCh.closed /\ inCh.next > Len(input)
    /\ inCh' = [inCh EXCEPT !.closed = TRUE]
    /\ UNCHANGED <<log, confVars, detVars, sts, wg, mainpc, worker, out, faults, loadVars,
                   input, disk, disk0, written, rerun, first>>

\* save: the range ends on the closed queue; defer wg.Done()
save_Exit(s) ==
    /\ sts.typ = "store"
    /\ worker[s].pc = "recv"
    /\ NextReceiver(s)
    /\ inCh.closed
    /\ worker' = [worker EXCEPT ![s].pc = "exited"]
    /\ wg' = wg - 1
    /\ UNCHANGED <<log, confVars, detVars, sts, mainpc, out, faults, loadVars, storeVars>>

\* save: blobExists(blobPath, blobSize)
save_Exists(s) ==
    /\ sts.typ = "store"
    /\ worker[s].pc = "exists"
    /\ \/ /\ worker' = [worker EXCEPT ![s].pc =
                IF blobExists(disk, worker[s].path, worker[s].item[1].size)
                THEN "addSkipCount" ELSE "open"]
          /\ UNCHANGED faults
       \/ /\ faults < MaxFaults
          /\ faults' = faults + 1
          /\ worker' = [worker EXCEPT ![s].pc = "addError",
                                      ![s].err = "check target blob error"]
    /\ UNCHANGED <<log, confVars, detVars, sts, wg, mainpc, out, loadVars, storeVars>>

\* save: sts.AddSkipCount(1)
save_AddSkipCount(s) ==
    /\ sts.typ = "store"
    /\ worker[s].pc = "addSkipCount"
    /\ sts' = AddSkipCount(sts, 1)
    /\ worker' = [worker EXCEPT ![s].pc = "addSkipSize"]
    /\ UNCHANGED <<log, confVars, detVars, wg, mainpc, out, faults, loadVars, storeVars>>

\* a skip branch that lacks its `continue` and falls through to the send
save_AddSkipSizeAndSend(s) ==
    /\ sts.typ = "store"
    /\ worker[s].pc = "addSkipSize"
    /\ sts' = AddSkipSize(sts, worker[s].item[1].size)
    /\ log' = Logged(log, "skip existing", worker[s].item[1].path)
    /\ worker' = [worker EXCEPT
            ![s].pc = "send",
            ![s].item = Some(Relocated(worker[s].item[1], worker[s].path))]
    /\ UNCHANGED <<confVars, detVars, wg, mainpc, out, faults, loadVars, storeVars>>

\* save: sts.AddSkipSize(blobSize); continue
save_AddSkipSize(s) ==
    /\ sts.typ = "store"
    /\ worker[s].pc = "addSkipSize"
    /\ sts' = AddSkipSize(sts, worker[s].item[1].size)
    /\ log' = Logged(log, "skip existing", worker[s].item[1].path)
    /\ worker' = [worker EXCEPT ![s] = [IdleWorker EXCEPT !.pc = "recv"]]
    /\ UNCHANGED <<confVars, detVars, wg, mainpc, out, faults, loadVars, storeVars>>

\* save: os.MkdirAll of the path's directory, blob.ReadCloser(), which
\* fails on a Blob whose content is nil (the Blob turns out to be freed),
\* and saveFile's os.OpenFile(path, os.O_CREATE|os.O_WRONLY, 0644)
save_Open(s) ==
    /\ sts.typ = "store"
    /\ worker[s].pc = "open"
    /\ \/ /\ disk' = OpenFile(disk, worker[s].path)
          /\ written' = written \cup {worker[s].path}
          /\ worker' = [worker EXCEPT ![s].pc = "write"]
          /\ UNCHANGED faults
       \/ /\ faults < MaxFaults
          /\ faults' = faults + 1
          /\ \E e \in {"mkdir error", "blob reader error", "save blob error"} :
                worker' = [worker EXCEPT
                    ![s].pc = "addError",
                    ![s].err = e,
                    ![s].item = IF e = "blob reader error"
                                THEN Some(Free(worker[s].item[1])) ELSE @]
          /\ UNCHANGED <<disk, written>>
    /\ UNCHANGED <<log, confVars, detVars, sts, wg, mainpc, out, loadVars,
                   input, inCh, disk0, rerun, first>>

\* saveFile: io.Copy(dst, src); a failing copy has written a proper prefix
save_Write(s) ==
    /\ sts.typ = "store"
    /\ worker[s].pc = "write"
    /\ LET bytes == worker[s].item[1].blob[1]
       IN  \/ /\ disk' = CopyTo(disk, worker[s].path, bytes)
              /\ worker' = [worker EXCEPT ![s].pc = "addCount"]
              /\ UNCHANGED faults
           \/ /\ faults < MaxFaults
              /\ faults' = faults + 1
              /\ \E k \in 0..(Len(bytes) - 1) :
                    disk' = CopyTo(disk, worker[s].path, SubSeq(bytes, 1, k))
              /\ worker' = [worker EXCEPT ![s].pc = "addError",
                                          ![s].err = "save blob error"]
    /\ UNCHANGED <<log, confVars, detVars, sts, wg, mainpc, out, loadVars,
                   input, inCh, disk0, written, rerun, first>>

\* save: sts.AddErrorCount(1); continue
save_AddErrorCount(s) ==
    /\ sts.typ = "store"
    /\ worker[s].pc = "addError"
    /\ sts' = AddErrorCount(sts, 1)
    /\ log' = Logged(log, worker[s].err, worker[s].item[1].path)
    /\ worker' = [worker EXCEPT ![s] = [IdleWorker EXCEPT !.pc = "recv"]]
    /\ UNCHANGED <<confVars, detVars, wg, mainpc, out, faults, loadVars, storeVars>>

\* save: sts.AddCount(1)
save_AddCount(s) ==
    /\ sts.typ = "store"
    /\ worker[s].pc = "addCount"
    /\ sts' = AddCount(sts, 1)
    /\ worker' = [worker EXCEPT ![s].pc = "addSize"]
    /\ UNCHANGED <<log, confVars, detVars, wg, mainpc, out, faults, loadVars, storeVars>>

\* save: sts.AddSize(blobSize), then the relocated Blob is built for the send
save_AddSize(s) ==
    /\ sts.typ = "store"
    /\ worker[s].pc = "addSize"
    /\ sts' = AddSize(sts, worker[s].item[1].size)
    /\ log' = Logged(log, "done saving", worker[s].item[1].path)
    /\ worker' = [worker EXCEPT
            ![s].pc = "send",
            ![s].item = Some(Relocated(worker[s].item[1], worker[s].path))]
    /\ UNCHANGED <<confVars, detVars, wg, mainpc, out, faults, loadVars, storeVars>>

(* -------------------------------- store -------------------------------- *)

\* store: wg.Add(saverCnt), go save(...) per saver
store_Start ==
    /\ sts.typ = "store" /\ mainpc = "start"
    /\ wg' = wg + workerCnt
    /\ worker' = StartWorkers
    /\ mainpc' = "wait"
    /\ UNCHANGED <<log, confVars, detVars, sts, out, faults, loadVars, storeVars>>

\* store: wg.Wait(), then sts.Finish()
store_Wait ==
    /\ sts.typ = "store" /\ mainpc = "wait"
    /\ WaitReturns(wg)
    /\ mainpc' = "finishTime"
    /\ UNCHANGED <<log, confVars, detVars, sts, wg, worker, out, faults, loadVars, storeVars>>

\* FileSystem.Store called again, on the same Blobs and the same target,
\* after a first run that met no error is over
Store_Again ==
    /\ sts.typ = "store" /\ mainpc = "returned" /\ ~rerun
    /\ sts.errorCount = 0
    /\ rerun' = TRUE
    /\ first' = Some(sts)
    /\ sts' = NewStoreStatus
    /\ mainpc' = "start"
    /\ worker' = [w \in Workers |-> IdleWorker]
    /\ inCh' = [next |-> 1, closed |-> FALSE]
    /\ out' = EmptyBag
    /\ log' = EmptyBag
    /\ faults' = 0
    /\ written' = {}
    /\ UNCHANGED <<confVars, detVars, wg, loadVars, input, disk, disk0>>

(* --------------------------------- New --------------------------------- *)

\* the working directory a relative root is resolved against
Cwd == <<Sep, "w">>

\* filepath.Abs: an absolute path as it is, a relative one joined to the
\* working directory, an error when that cannot be told
Abs(root, cwdOk) ==
    IF root # <<>> /\ Head(root) = Sep THEN Some(root)
    ELSE IF cwdOk THEN Some(Join(<<Cwd, root>>))
    ELSE None

\* a constructor whose second range test looks at maxSaver again
NewTestsSaverTwice(root, cwdOk, maxSaver, maxLoader) ==
    IF Abs(root, cwdOk) = None
    THEN [fs |-> None, err |-> Some("abs")]
    ELSE IF maxSaver < MinPool \/ maxSaver > MaxPool
    THEN [fs |-> None, err |-> Some("maxSaver is out of allowed range")]
    ELSE IF maxSaver < MinPool \/ maxSaver > MaxPool
    THEN [fs |-> None, err |-> Some("maxLoader is out of allowed range")]
    ELSE [fs |-> Some([root |-> Abs(root, cwdOk)[1], skip |-> "skipDotFile",
                       maxLoader |-> maxLoader, maxSaver |-> maxSaver]),
          err |-> None]

\* New: the FileSystem and the error it returns
New(root, cwdOk, maxSaver, maxLoader) ==
    IF Abs(root, cwdOk) = None
    THEN [fs |-> None, err |-> Some("abs")]
    ELSE IF maxSaver < MinPool \/ maxSaver > MaxPool
    THEN [fs |-> None, err |-> Some("maxSaver is out of allowed range")]
    ELSE IF maxLoader < MinPool \/ maxLoader > MaxPool
    THEN [fs |-> None, err |-> Some("maxLoader is out of allowed range")]
    ELSE [fs |-> Some([root |-> Abs(root, cwdOk)[1], skip |-> "skipDotFile",
                       maxLoader |-> maxLoader, maxSaver |-> maxSaver]),
          err |-> None]

\* a call of New that has not returned yet
Called(root, cwdOk, maxSaver, maxLoader) ==
    [root |-> root, cwdOk |-> cwdOk, maxSaver |-> maxSaver, maxLoader |-> maxLoader,
     returned |-> FALSE, fs |-> None, err |-> None]

\* the call once New has returned
Return(c) ==
    LET r == New(c.root, c.cwdOk, c.maxSaver, c.maxLoader)
    IN  [c EXCEPT !.returned = TRUE, !.fs = r.fs, !.err = r.err]

\* New runs and returns to its caller
New_Call ==
    /\ mainpc = "new" /\ ~newCall.returned
    /\ newCall' = Return(newCall)
    /\ UNCHANGED <<workerCnt, sts, wg, mainpc, worker, out, faults, log,
                   loadVars, storeVars, detVars>>

\* FileSystem.Load on the FileSystem New returned: a load status and
\* go load(fs.root, fs.skip, fs.maxLoader, sts, lg)
FileSystem_Load ==
    /\ mainpc = "new" /\ newCall.fs # None
    /\ sts' = NewLoadStatus
    /\ workerCnt' = newCall.fs[1].maxLoader
    /\ worker' = [w \in 1..workerCnt' |-> IdleWorker]
    /\ mainpc' = "start"
    /\ UNCHANGED <<newCall, wg, out, faults, log, loadVars, storeVars, detVars>>

\* FileSystem.Store on the FileSystem New returned: a store status and
\* go store(fs.root, fs.maxSaver, blobCh, sts, lg)
FileSystem_Store ==
    /\ mainpc = "new" /\ newCall.fs # None
    /\ sts' = NewStoreStatus
    /\ workerCnt' = newCall.fs[1].maxSaver
    /\ worker' = [w \in 1..workerCnt' |-> IdleWorker]
    /\ mainpc' = "start"
    /\ UNCHANGED <<newCall, wg, out, faults, log, loadVars, storeVars, detVars>>

(* --------------------------- mime detection ---------------------------- *)

Newline == "\n"
Space == " "

\* strings.Index(s, c): the 0-based position of the first c, or -1
Index(s, c) ==
    LET S == {i \in 1..Len(s) : s[i] = c}
    IN  IF S = {} THEN -1 ELSE (CHOOSE i \in S : \A j \in S : i <= j) - 1

RECURSIVE TrimSpace(_)
\* strings.TrimSpace
TrimSpace(s) ==
    IF s = <<>> THEN s
    ELSE IF Head(s) \in {Space, Newline} THEN TrimSpace(Tail(s))
    ELSE IF s[Len(s)] \in {Space, Newline} THEN TrimSpace(SubSeq(s, 1, Len(s) - 1))
    ELSE s

\* strings.SplitN(s, c, 2)
SplitN2(s, c) ==
    LET idx == Index(s, c)
    IN  IF idx = -1 THEN <<s>>
        ELSE <<Slice(s, 0, idx), Slice(s, idx + 1, Len(s))>>

RECURSIVE Split(_, _)
\* strings.Split(s, c)
Split(s, c) ==
    LET idx == Index(s, c)
    IN  IF idx = -1 THEN <<s>>
        ELSE <<Slice(s, 0, idx)>> \o Split(Slice(s, idx + 1, Len(s)), c)

\* a value parser that takes a value without "=" to have no encoding
parseMimeStringLenient(s) ==
    LET parts == SplitN2(s, ";")
    IN  IF Len(parts) < 2 THEN None
        ELSE LET mime == SplitN2(parts[1], "/")
             IN  IF Len(mime) < 2 THEN None
                 ELSE LET charset == SplitN2(parts[2], "=")
                      IN  Some([Type |-> TrimSpace(mime[1]),
                                Subtype |-> TrimSpace(mime[2]),
                                Encoding |-> IF Len(charset) < 2 THEN <<>>
                                             ELSE TrimSpace(charset[2])])

\* filesystem.parseMimeString: "type/subtype; charset=encoding"
parseMimeString(s) ==
    LET parts == SplitN2(s, ";")
    IN  IF Len(parts) < 2 THEN None
        ELSE LET mime == SplitN2(parts[1], "/")
             IN  IF Len(mime) < 2 THEN None
                 ELSE LET charset == SplitN2(parts[2], "=")
                      IN  IF Len(charset) < 2 THEN None
                          ELSE Some([Type |-> TrimSpace(mime[1]),
                                     Subtype |-> TrimSpace(mime[2]),
                                     Encoding |-> TrimSpace(charset[2])])

\* a line parser that looks up the path with its colon
parseMimeLineKeepsColon(p2m, line) ==
    LET idx == Index(line, ":")
    IN  IF idx = -1 THEN [bm |-> None, mt |-> None]
        ELSE IF Slice(line, 0, idx + 1) \notin DOMAIN p2m THEN [bm |-> None, mt |-> None]
        ELSE [bm |-> Some(Slice(line, 0, idx + 1)),
              mt |-> parseMimeString(TrimSpace(Slice(line, idx + 1, Len(line))))]

\* filesystem.parseMimeLine: the BlobMeta of the line's path (its key in
\* path2meta stands for the pointer) and the parsed value
parseMimeLine(p2m, line) ==
    LET idx == Index(line, ":")
    IN  IF idx = -1 THEN [bm |-> None, mt |-> None]
        ELSE IF Slice(line, 0, idx) \notin DOMAIN p2m THEN [bm |-> None, mt |-> None]
        ELSE [bm |-> Some(Slice(line, 0, idx)),
              mt |-> parseMimeString(TrimSpace(Slice(line, idx + 1, Len(line))))]

\* filesystem.parseDescLine
parseDescLine(p2m, line) ==
    LET idx == Index(line, ":")
    IN  IF idx = -1 THEN [bm |-> None, desc |-> <<>>]
        ELSE IF Slice(line, 0, idx) \notin DOMAIN p2m THEN [bm |-> None, desc |-> <<>>]
        ELSE [bm |-> Some(Slice(line, 0, idx)),
              desc |-> TrimSpace(Slice(line, idx + 1, Len(line)))]

\* meta.NewBlobMeta
NewBlobMeta(id) == [id |-> id, meta |-> <<>>]

\* BlobMeta.Add: m.meta[k] = v
Add(m, k, v) ==
    [m EXCEPT !.meta = [x \in DOMAIN m.meta \cup {k} |->
                            IF x = k THEN v ELSE m.meta[x]]]

\* meta.NewMetaExtractErr and meta.NewMetaExtractResult
NewMetaExtractErr(msg, line) ==
    [Error |-> Some([msg |-> msg, line |-> line]), BlobMeta |-> None]
NewMetaExtractResult(m) == [Error |-> None, BlobMeta |-> Some(m)]

\* util.FileExt: what follows the last dot of the name
FileExt(name) ==
    LET S == {i \in 1..Len(name) : name[i] = "."}
    IN  IF S = {} THEN <<>>
        ELSE SubSeq(name, (CHOOSE i \in S : \A j \in S : j <= i) + 1, Len(name))

\* MapName2Mime: the guess from the name's extension, none for a name
\* without one
MapName2Mime(name) == [Type |-> <<>>, Subtype |-> <<>>]

\* put(m, k, v) is the Go map m with m[k] = v
Put(m, k, v) == [x \in DOMAIN m \cup {k} |-> IF x = k THEN v ELSE m[x]]

RECURSIVE Collect(_, _)
\* detect: the loop that fills path2meta from files
Collect(fs, m) ==
    IF fs = <<>> THEN m
    ELSE LET f == Head(fs)
             mt == MapName2Mime(f.name)
             bm == Add(Add(Add(Add(NewBlobMeta(HashString(f.hash[1])),
                        "filename", f.name),
                        "fileext", FileExt(f.name)),
                        "fileext-mime-type", mt.Type),
                        "fileext-mime-subtype", mt.Subtype)
         IN  Collect(Tail(fs), Put(m, f.path, bm))

\* nobody reads the status: the zero value of JSONStr's locals
IdleReader ==
    [pc |-> "idle", Done |-> FALSE, FinishTime |-> None, Duration |-> "now",
     Count |-> 0, Size |-> 0, SkipCount |-> 0, SkipSize |-> 0, ErrorCount |-> 0,
     json |-> None]

\* no Hash is under construction
NoHash == [data |-> <<>>, s |-> <<>>, a |-> None, called |-> FALSE, b |-> None]

\* no Blob is under test
NoBlob ==
    [f |-> NewFileBlob(<<>>), file |-> <<>>, last |-> "", err |-> FALSE,
     freed |-> FALSE]

\* no Store run reads the output queue of a Load run
NoCopy ==
    [sts |-> NewProcessStatus("none"), wg |-> 0, pc |-> "none", saver |-> <<>>,
     main |-> "none"]

\* DetectMimeType has not been called
NoPipeline ==
    /\ reader = IdleReader
    /\ dr = NoCopy
    /\ hashCall = NoHash
    /\ fblob = NoBlob
    /\ dinCh = [items |-> <<>>, next |-> 1, closed |-> FALSE]
    /\ disp = [pc |-> "none", batch |-> 0, arr |-> 0, i |-> 0]
    /\ arrays = <<>> /\ tasks = <<>> /\ dwg = 0 /\ midClosed = 0
    /\ outp = [pc |-> "none", r |-> None]
    /\ outCh = [got |-> EmptyBag, closes |-> 0]

\* no detection task is running
NoDetect ==
    /\ NoPipeline
    /\ files = <<>> /\ path2meta = <<>>
    /\ fileCmd = [mime |-> None, desc |-> None]
    /\ lines = <<>> /\ toEmit = {} /\ dpc = "none" /\ midCh = <<>>

runVars ==
    <<workerCnt, sts, wg, mainpc, worker, out, faults, log, loadVars, storeVars,
      newCall, pipeVars, reader, hashCall, fblob, dr>>

\* detect: the map is built from the batch
detect_Collect ==
    /\ dpc = "collect"
    /\ path2meta' = Collect(files, <<>>)
    /\ dpc' = "tmpfile"
    /\ UNCHANGED <<runVars, files, fileCmd, lines, toEmit, midCh>>

\* detect: the range over path2meta starts
StartEmit == /\ toEmit' = DOMAIN path2meta /\ dpc' = "emit"

\* detect: ioutil.TempFile, then writeFileList; either may fail
detect_TempFile ==
    /\ dpc \in {"tmpfile", "write"}
    /\ \/ /\ dpc' = IF dpc = "tmpfile" THEN "write" ELSE "mime"
          /\ UNCHANGED <<midCh, toEmit>>
       \/ /\ midCh' = Append(midCh, NewMetaExtractErr(dpc, <<>>))
          /\ StartEmit
    /\ UNCHANGED <<runVars, files, path2meta, fileCmd, lines>>

\* detectWithFileCmd: exec.Command(...).Output() of the mime run or of the
\* description run; a failed run sends its error
detectWithFileCmd_Output ==
    /\ dpc \in {"mime", "desc"}
    /\ LET o == IF dpc = "mime" THEN fileCmd.mime ELSE fileCmd.desc
       IN  IF o = None
           THEN /\ midCh' = Append(midCh, NewMetaExtractErr("exec", <<>>))
                /\ IF dpc = "mime"
                   THEN dpc' = "desc" /\ toEmit' = toEmit
                   ELSE StartEmit
                /\ lines' = lines
           ELSE /\ lines' = Split(o[1], Newline)
                /\ dpc' = IF dpc = "mime" THEN "mimeLines" ELSE "descLines"
                /\ UNCHANGED <<midCh, toEmit>>
    /\ UNCHANGED <<runVars, files, path2meta, fileCmd>>

\* a mime pass that sends a BlobMeta as soon as its mime attributes are set
detectWithFileCmd_MimeLineSendsTyped ==
    /\ dpc = "mimeLines"
    /\ LET line == TrimSpace(Head(lines))
           r == parseMimeLine(path2meta, line)
       IN  /\ IF line = <<>> THEN UNCHANGED <<midCh, path2meta>>
              ELSE IF r.bm = None
              THEN /\ midCh' = Append(midCh,
                            NewMetaExtractErr("failed to match path for line", line))
                   /\ path2meta' = path2meta
              ELSE IF r.mt = None
              THEN /\ midCh' = Append(midCh,
                            NewMetaExtractErr("failed to parse mime info for line", line))
                   /\ path2meta' = path2meta
              ELSE /\ path2meta' = [path2meta EXCEPT ![r.bm[1]] =
                            Add(Add(Add(@,
                                "filetype-mime-type", r.mt[1].Type),
                                "filetype-mime-subtype", r.mt[1].Subtype),
                                "filetype-mime-encoding", r.mt[1].Encoding)]
                   /\ midCh' = Append(midCh, NewMetaExtractResult(path2meta'[r.bm[1]]))
           /\ lines' = Tail(lines)
           /\ dpc' = IF Tail(lines) = <<>> THEN "desc" ELSE dpc
    /\ UNCHANGED <<runVars, files, fileCmd, toEmit>>

\* detectWithFileCmd: one pass of the loop over the lines of the mime run
detectWithFileCmd_MimeLine ==
    /\ dpc = "mimeLines"
    /\ LET line == TrimSpace(Head(lines))
           r == parseMimeLine(path2meta, line)
       IN  /\ IF line = <<>> THEN UNCHANGED <<midCh, path2meta>>
              ELSE IF r.bm = None
              THEN /\ midCh' = Append(midCh,
                            NewMetaExtractErr("failed to match path for line", line))
                   /\ path2meta' = path2meta
              ELSE IF r.mt = None
              THEN /\ midCh' = Append(midCh,
                            NewMetaExtractErr("failed to parse mime info for line", line))
                   /\ path2meta' = path2meta
              ELSE /\ path2meta' = [path2meta EXCEPT ![r.bm[1]] =
                            Add(Add(Add(@,
                                "filetype-mime-type", r.mt[1].Type),
                                "filetype-mime-subtype", r.mt[1].Subtype),
                                "filetype-mime-encoding", r.mt[1].Encoding)]
                   /\ midCh' = midCh
           /\ lines' = Tail(lines)
           /\ dpc' = IF Tail(lines) = <<>> THEN "desc" ELSE dpc
    /\ UNCHANGED <<runVars, files, fileCmd, toEmit>>

\* detectWithFileCmd: one pass of the loop over the lines of the
\* description run; after the last line detect ranges over path2meta
detectWithFileCmd_DescLine ==
    /\ dpc = "descLines"
    /\ LET line == TrimSpace(Head(lines))
           r == parseDescLine(path2meta, line)
       IN  /\ IF line = <<>> THEN UNCHANGED <<midCh, path2meta>>
              ELSE IF r.bm = None
              THEN /\ midCh' = Append(midCh,
                            NewMetaExtractErr("failed to match path for line", line))
                   /\ path2meta' = path2meta
              ELSE /\ path2meta' = [path2meta EXCEPT ![r.bm[1]] =
                            IF r.desc # <<>>
                            THEN Add(@, "filetype-description", r.desc) ELSE @]
                   /\ midCh' = midCh
           /\ lines' = Tail(lines)
           /\ IF Tail(lines) = <<>>
              THEN StartEmit
              ELSE UNCHANGED <<dpc, toEmit>>
    /\ UNCHANGED <<runVars, files, fileCmd>>

\* a task that sends a BlobMeta only when it got its mime attributes
detect_EmitTypedOnly ==
    /\ dpc = "emit"
    /\ IF toEmit = {}
       THEN dpc' = "done" /\ UNCHANGED <<midCh, toEmit>>
       ELSE \E path \in toEmit :
                /\ midCh' = IF "filetype-mime-type" \in DOMAIN path2meta[path].meta
                            THEN Append(midCh, NewMetaExtractResult(path2meta[path]))
                            ELSE midCh
                /\ toEmit' = toEmit \ {path}
                /\ dpc' = dpc
    /\ UNCHANGED <<runVars, files, path2meta, fileCmd, lines>>

\* detect: `for _, bm := range path2meta { outCh <- NewMetaExtractResult(bm) }`
\* in the order the map yields, then the task returns
detect_Emit ==
    /\ dpc = "emit"
    /\ IF toEmit = {}
       THEN dpc' = "done" /\ UNCHANGED <<midCh, toEmit>>
       ELSE \E path \in toEmit :
                /\ midCh' = Append(midCh, NewMetaExtractResult(path2meta[path]))
                /\ toEmit' = toEmit \ {path}
                /\ dpc' = dpc
    /\ UNCHANGED <<runVars, files, path2meta, fileCmd, lines>>

(* ---------------------------- specification ---------------------------- *)

PoolSizes == MinPool..(IF MaxWorkers < MaxPool THEN MaxWorkers ELSE MaxPool)

InitCommon ==
    /\ workerCnt \in PoolSizes
    /\ wg = 0
    /\ mainpc = "start"
    /\ worker = [w \in Workers |-> IdleWorker]
    /\ out = EmptyBag
    /\ log = EmptyBag
    /\ faults = 0
    /\ NoDetect

\* FileSystem.Load: a fresh load status, go load(...)
InitLoad ==
    /\ InitCommon
    /\ sts = NewLoadStatus
    /\ newCall = Return(Called(SourceRoot, TRUE, workerCnt, workerCnt))
    /\ tree \in Trees
    /\ walk = [pc |-> "idle", cur |-> None, stack |-> <<>>]
    /\ fileCh = [closes |-> 0, pushed |-> {}]
    /\ input = <<>>
    /\ inCh = [next |-> 1, closed |-> FALSE]
    /\ disk = <<>>
    /\ disk0 = <<>>
    /\ written = {}
    /\ rerun = FALSE
    /\ first = None

\* FileSystem.Store: a fresh store status, go store(...)
InitStore ==
    /\ InitCommon
    /\ sts = NewStoreStatus
    /\ newCall = Return(Called(TargetRoot, TRUE, workerCnt, workerCnt))
    /\ tree = [n \in Entries |-> [kind |-> "none", name |-> <<EntryChar(n)>>]]
    /\ walk = [pc |-> "idle", cur |-> None, stack |-> <<>>]
    /\ fileCh = [closes |-> 0, pushed |-> {}]
    /\ input \in {in \in Inputs : InputOK(in)}
    /\ inCh = [next |-> 1, closed |-> FALSE]
    /\ disk \in Targets
    /\ disk0 = disk
    /\ written = {}
    /\ rerun = FALSE
    /\ first = None

Init == InitLoad \/ InitStore

NextLoad ==
    \/ load_Start
    \/ walkDir_Open
    \/ walkDir_Entry
    \/ walkDir_SkipSize
    \/ walkDir_Return
    \/ load_Close
    \/ load_Wait
    \/ \E l \in Workers : loadFile_Recv(l)
    \/ \E l \in Workers : loadFile_Exit(l)
    \/ \E l \in Workers : loadFile_Load(l)
    \/ \E l \in Workers : loadFile_AddErrorCount(l)
    \/ \E l \in Workers : loadFile_AddCount(l)
    \/ \E l \in Workers : loadFile_AddSize(l)

NextStore ==
    \/ store_Start
    \/ store_Wait
    \/ Caller_Close
    \/ \E s \in Workers : save_Recv(s)
    \/ \E s \in Workers : save_Exit(s)
    \/ \E s \in Workers : save_Exists(s)
    \/ \E s \in Workers : save_AddSkipCount(s)
    \/ \E s \in Workers : save_AddSkipSize(s)
    \/ \E s \in Workers : save_Open(s)
    \/ \E s \in Workers : save_Write(s)
    \/ \E s \in Workers : save_AddErrorCount(s)
    \/ \E s \in Workers : save_AddCount(s)
    \/ \E s \in Workers : save_AddSize(s)

Next ==
    \/ NextLoad
    \/ NextStore
    \/ Finish
    \/ \E w \in Workers : Receive(w)

Spec == Init /\ [][Next]_vars

\* a Load run alone
NextLoadRun ==
    \/ NextLoad
    \/ Finish
    \/ \E w \in Workers : Receive(w)

SpecLoad == InitLoad /\ [][NextLoadRun]_vars

\* a Load run in which every goroutine that can take a step gets to take
\* it, and the reader of the output queue keeps reading
SpecLoadFair == SpecLoad /\ WF_vars(NextLoadRun)

\* a Store run alone
NextStoreRun ==
    \/ NextStore
    \/ Finish
    \/ \E w \in Workers : Receive(w)

SpecStore == InitStore /\ [][NextStoreRun]_vars

\* a Store run, and a second one of the same Blobs into the same target
NextStoreTwice ==
    \/ NextStoreRun
    \/ Store_Again

SpecStoreTwice == InitStore /\ [][NextStoreTwice]_vars

\* the pool sizes and roots New is called with
PoolArgs == {MinPool - 1, MinPool, MinPool + 1, MaxPool - 1, MaxPool, MaxPool + 1}
RootArgs == {SourceRoot, TargetRoot, <<"s">>}

\* before New is called: no FileSystem, no status, no pool
InitNew ==
    /\ newCall \in {Called(r, c, ms, ml) :
                        r \in RootArgs, c \in BOOLEAN, ms \in PoolArgs, ml \in PoolArgs}
    /\ mainpc = "new"
    /\ workerCnt = 0
    /\ sts = NewProcessStatus("none")
    /\ wg = 0
    /\ worker = <<>>
    /\ out = EmptyBag
    /\ log = EmptyBag
    /\ faults = 0
    /\ tree = [n \in Entries |-> [kind |-> "none", name |-> <<EntryChar(n)>>]]
    /\ walk = [pc |-> "idle", cur |-> None, stack |-> <<>>]
    /\ fileCh = [closes |-> 0, pushed |-> {}]
    /\ input = <<>>
    /\ inCh = [next |-> 1, closed |-> FALSE]
    /\ disk = <<>>
    /\ disk0 = <<>>
    /\ written = {}
    /\ rerun = FALSE
    /\ first = None
    /\ NoDetect

\* New, then Load or Store on what it returned, up to the start of the run
NextNew ==
    \/ New_Call
    \/ FileSystem_Load
    \/ FileSystem_Store

SpecNew == InitNew /\ [][NextNew]_vars

\* the batches dispatch hands to a task hold at most MaxBatch FileBlobs
MaxBatch == 2

\* the loaded FileBlobs that come in: two files with their contents
DetectBlobs == {InputBlob(1, <<1>>), InputBlob(2, <<2, 1>>)}

Batches == UNION {[1..n -> DetectBlobs] : n \in 1..MaxBatch}

\* the digit that ends the path tells the values of the path's lines apart
MimeText(k) == <<"t", k, "/", "u", k, ";", Space, "c", "=", "e", k>>

\* what the mime run may print for a path: a well-formed line, a value
\* without ";", without "/" or without "=", a line for a path that is not
\* in the list, or nothing
MimeVariants == {"good", "noSemi", "noSlash", "noEq", "unknown", "absent"}

MimeLineOf(path, v) ==
    LET k == path[Len(path)]
        head == path \o <<":", Space, Space>>
    IN  CASE v = "good" -> head \o MimeText(k) \o <<Newline>>
          [] v = "noSemi" -> head \o <<"t", k, "/", "u", k>> \o <<Newline>>
          [] v = "noSlash" -> head \o <<"t", k, ";", Space, "c", "=", "e", k, Newline>>
          [] v = "noEq" -> head \o <<"t", k, "/", "u", k, ";", Space, "c", Newline>>
          [] v = "unknown" -> path \o <<"x", ":", Space>> \o MimeText(k) \o <<Newline>>
          [] v = "absent" -> <<>>

\* what the description run may print for a path: a description, an empty
\* one, a line for a path that is not in the list, or nothing
DescVariants == {"good", "empty", "unknown", "absent"}

DescLineOf(path, v) ==
    LET k == path[Len(path)]
    IN  CASE v = "good" -> path \o <<":", Space, "d", k, Newline>>
          [] v = "empty" -> path \o <<":", Space, Newline>>
          [] v = "unknown" -> path \o <<"x", ":", Space, "d", k, Newline>>
          [] v = "absent" -> <<>>

\* the orders in which the list file may name the paths of a set
Orders(P) == {o \in [1..Cardinality(P) -> P] : \A p \in P : \E i \in DOMAIN o : o[i] = p}

RECURSIVE Printed(_, _, _)
\* the output of a run: the lines of the paths in the order of the list
Printed(order, v, run) ==
    IF order = <<>> THEN <<>>
    ELSE (IF run = "mime" THEN MimeLineOf(Head(order), v[Head(order)])
                          ELSE DescLineOf(Head(order), v[Head(order)]))
         \o Printed(Tail(order), v, run)

\* the outputs the file command may give for a batch, or its failure
FileCmdOutputs(fs) ==
    LET P == {fs[i].path : i \in DOMAIN fs}
    IN  {[mime |-> m, desc |-> d] :
            m \in {None} \cup {Some(Printed(o, v, "mime")) :
                                o \in Orders(P), v \in [P -> MimeVariants]},
            d \in {None} \cup {Some(Printed(o, v, "desc")) :
                                o \in Orders(P), v \in [P -> DescVariants]}}

\* go detect(workDir, files[0:i], outCh, wg)
InitDetect ==
    /\ files \in Batches
    /\ fileCmd \in FileCmdOutputs(files)
    /\ path2meta = <<>> /\ lines = <<>> /\ toEmit = {} /\ midCh = <<>>
    /\ dpc = "collect"
    /\ NoPipeline
    /\ mainpc = "detect"
    /\ workerCnt = 0
    /\ newCall = Called(<<>>, TRUE, 0, 0)
    /\ sts = NewProcessStatus("none")
    /\ wg = 0
    /\ worker = <<>>
    /\ out = EmptyBag
    /\ log = EmptyBag
    /\ faults = 0
    /\ tree = [n \in Entries |-> [kind |-> "none", name |-> <<EntryChar(n)>>]]
    /\ walk = [pc |-> "idle", cur |-> None, stack |-> <<>>]
    /\ fileCh = [closes |-> 0, pushed |-> {}]
    /\ input = <<>>
    /\ inCh = [next |-> 1, closed |-> FALSE]
    /\ disk = <<>>
    /\ disk0 = <<>>
    /\ written = {}
    /\ rerun = FALSE
    /\ first = None

NextDetect ==
    \/ detect_Collect
    \/ detect_TempFile
    \/ detectWithFileCmd_Output
    \/ detectWithFileCmd_MimeLine
    \/ detectWithFileCmd_DescLine
    \/ detect_Emit

SpecDetect == InitDetect /\ [][NextDetect]_vars

(* ------------------------ the detection pipeline ----------------------- *)

RECURSIVE MimePass(_, _, _)
\* detectWithFileCmd: the loop over the lines of the mime run as a whole:
\* the map and the error results it leaves
MimePass(p2m, ls, errs) ==
    IF ls = <<>> THEN [m |-> p2m, errs |-> errs]
    ELSE LET line == TrimSpace(Head(ls))
             r == parseMimeLine(p2m, line)
         IN  IF line = <<>> THEN MimePass(p2m, Tail(ls), errs)
             ELSE IF r.bm = None
             THEN MimePass(p2m, Tail(ls), Append(errs,
                        NewMetaExtractErr("failed to match path for line", line)))
             ELSE IF r.mt = None
             THEN MimePass(p2m, Tail(ls), Append(errs,
                        NewMetaExtractErr("failed to parse mime info for line", line)))
             ELSE MimePass([p2m EXCEPT ![r.bm[1]] =
                                Add(Add(Add(@,
                                    "filetype-mime-type", r.mt[1].Type),
                                    "filetype-mime-subtype", r.mt[1].Subtype),
                                    "filetype-mime-encoding", r.mt[1].Encoding)],
                           Tail(ls), errs)

RECURSIVE DescPass(_, _, _)
\* detectWithFileCmd: the loop over the lines of the description run
DescPass(p2m, ls, errs) ==
    IF ls = <<>> THEN [m |-> p2m, errs |-> errs]
    ELSE LET line == TrimSpace(Head(ls))
             r == parseDescLine(p2m, line)
         IN  IF line = <<>> THEN DescPass(p2m, Tail(ls), errs)
             ELSE IF r.bm = None
             THEN DescPass(p2m, Tail(ls), Append(errs,
                        NewMetaExtractErr("failed to match path for line", line)))
             ELSE DescPass([p2m EXCEPT ![r.bm[1]] =
                                IF r.desc # <<>>
                                THEN Add(@, "filetype-description", r.desc) ELSE @],
                           Tail(ls), errs)

\* detectWithFileCmd as a whole: both runs, each failing or parsed
FileCmdPasses(p2m, cmd) ==
    LET a == IF cmd.mime = None
             THEN [m |-> p2m, errs |-> <<NewMetaExtractErr("exec", <<>>)>>]
             ELSE MimePass(p2m, Split(cmd.mime[1], Newline), <<>>)
    IN  IF cmd.desc = None
        THEN [m |-> a.m, errs |-> Append(a.errs, NewMetaExtractErr("exec", <<>>))]
        ELSE DescPass(a.m, Split(cmd.desc[1], Newline), a.errs)

\* a task that gives up after an error: its error results and nothing else
TaskResultsErrorsOnly(fs, cmd, fail) ==
    LET p2m == Collect(fs, <<>>)
        r == IF fail \in {"tmpfile", "write"}
             THEN [m |-> p2m, errs |-> <<NewMetaExtractErr(fail, <<>>)>>]
             ELSE FileCmdPasses(p2m, cmd)
    IN  IF r.errs # <<>> THEN {r.errs}
        ELSE {[i \in DOMAIN o |-> NewMetaExtractResult(r.m[o[i]])] :
                    o \in Orders(DOMAIN p2m)}

\* detect as a whole: the sequences of results a task may send for the
\* batch fs, when the temp file or the list file fails (fail) or the file
\* command answers cmd; the BlobMetas come last, in the order of the map
TaskResults(fs, cmd, fail) ==
    LET p2m == Collect(fs, <<>>)
        r == IF fail \in {"tmpfile", "write"}
             THEN [m |-> p2m, errs |-> <<NewMetaExtractErr(fail, <<>>)>>]
             ELSE FileCmdPasses(p2m, cmd)
    IN  {r.errs \o [i \in DOMAIN o |-> NewMetaExtractResult(r.m[o[i]])] :
            o \in Orders(DOMAIN p2m)}

\* everything but the pipeline's own state and the log
restVars ==
    <<workerCnt, sts, wg, mainpc, worker, out, faults, loadVars, storeVars,
      newCall, files, path2meta, fileCmd, lines, toEmit, dpc, midCh, reader,
      hashCall, fblob, dr>>

\* make([]*blob.FileBlob, batch, batch)
MakeFiles(n) == [j \in 1..n |-> None]

\* what the file command may answer a task of the pipeline: a run prints a
\* well-formed line per path or fails, and after a failed run the next
\* fails too
PipeCmds(fs) ==
    LET P == {fs[i].path : i \in DOMAIN fs}
        good == [p \in P |-> "good"]
        o == CHOOSE q \in Orders(P) : TRUE
    IN  {c \in {[mime |-> m, desc |-> d] :
                    m \in {None, Some(Printed(o, good, "mime"))},
                    d \in {None, Some(Printed(o, good, "desc"))}} :
            c.mime = None => c.desc = None}

\* the slice files[0:i] of the array arr: what a task reads when it runs
SliceOf(arr, n) == [j \in 1..n |-> arrays[arr][j][1]]

\* go detect(workDir, files[0:i], outCh, wg), after wg.Add(1)
Spawned(ts, arr, n) ==
    Append(ts, [arr |-> arr, n |-> n, files |-> SliceOf(arr, n), pc |-> "collect",
                cmd |-> [mime |-> None, desc |-> None],
                results |-> <<>>, k |-> 1])

\* a dispatch that goes on filling the array it has handed to a task
dispatch_RecvSameArray ==
    /\ disp.pc = "recv"
    /\ ~dinCh.closed /\ dinCh.next <= Len(dinCh.items)
    /\ dinCh' = [dinCh EXCEPT !.next = @ + 1]
    /\ IF disp.i >= disp.batch
       THEN /\ disp' = [disp EXCEPT !.pc = "panic"]
            /\ UNCHANGED <<arrays, tasks, dwg>>
       ELSE LET a == [arrays EXCEPT ![disp.arr][disp.i + 1] =
                            Some(dinCh.items[dinCh.next])]
            IN  IF disp.i + 1 >= disp.batch
                THEN /\ dwg' = dwg + 1
                     /\ tasks' = Append(tasks,
                            [arr |-> disp.arr, n |-> disp.i + 1,
                             files |-> [j \in 1..(disp.i + 1) |-> a[disp.arr][j][1]],
                             pc |-> "collect",
                             cmd |-> [mime |-> None, desc |-> None],
                             results |-> <<>>, k |-> 1])
                     /\ arrays' = a
                     /\ disp' = [disp EXCEPT !.i = 0]
                ELSE /\ arrays' = a
                     /\ disp' = [disp EXCEPT !.i = @ + 1]
                     /\ UNCHANGED <<tasks, dwg>>
    /\ UNCHANGED <<restVars, log, midClosed, outp, outCh>>

\* dispatch: one pass of `for f := range inCh`: files[i] = f, which is out
\* of range when batch is 0, i++, and with a full array wg.Add(1),
\* go detect(..., files[0:i], ...), a new array and i = 0
dispatch_Recv ==
    /\ disp.pc = "recv"
    /\ ~dinCh.closed /\ dinCh.next <= Len(dinCh.items)
    /\ dinCh' = [dinCh EXCEPT !.next = @ + 1]
    /\ IF disp.i >= disp.batch
       THEN /\ disp' = [disp EXCEPT !.pc = "panic"]
            /\ UNCHANGED <<arrays, tasks, dwg>>
       ELSE LET a == [arrays EXCEPT ![disp.arr][disp.i + 1] =
                            Some(dinCh.items[dinCh.next])]
            IN  IF disp.i + 1 >= disp.batch
                THEN /\ dwg' = dwg + 1
                     /\ tasks' = Append(tasks,
                            [arr |-> disp.arr, n |-> disp.i + 1,
                             files |-> [j \in 1..(disp.i + 1) |-> a[disp.arr][j][1]],
                             pc |-> "collect",
                             cmd |-> [mime |-> None, desc |-> None],
                             results |-> <<>>, k |-> 1])
                     /\ arrays' = Append(a, MakeFiles(disp.batch))
                     /\ disp' = [disp EXCEPT !.arr = Len(a) + 1, !.i = 0]
                ELSE /\ arrays' = a
                     /\ disp' = [disp EXCEPT !.i = @ + 1]
                     /\ UNCHANGED <<tasks, dwg>>
    /\ UNCHANGED <<restVars, log, midClosed, outp, outCh>>

\* the caller of DetectMimeType closes the input stream once all is sent
DetectCaller_Close ==
    /\ mainpc = "pipeline"
    /\ ~dinCh.closed /\ dinCh.next > Len(dinCh.items)
    /\ dinCh' = [dinCh EXCEPT !.closed = TRUE]
    /\ UNCHANGED <<restVars, log, disp, arrays, tasks, dwg, midClosed, outp, outCh>>

\* dispatch: the range ends on the closed stream; a last, partial batch
\* gets its task
dispatch_Last ==
    /\ disp.pc = "recv" /\ dinCh.closed
    /\ IF disp.i > 0
       THEN /\ dwg' = dwg + 1
            /\ tasks' = Spawned(tasks, disp.arr, disp.i)
       ELSE UNCHANGED <<tasks, dwg>>
    /\ disp' = [disp EXCEPT !.pc = "wait"]
    /\ UNCHANGED <<restVars, log, dinCh, arrays, midClosed, outp, outCh>>

\* a barrier that lets dispatch through with one task still running
DetectWaitReturnsOneEarly(n) == n <= 1

\* wg.Wait() of dispatch returns when the counter is zero
DetectWaitReturns(n) == n = 0

\* dispatch: wg.Wait(), then close(outCh), its outCh being midCh
dispatch_WaitClose ==
    /\ \/ /\ disp.pc = "wait" /\ DetectWaitReturns(dwg)
          /\ disp' = [disp EXCEPT !.pc = "close"]
          /\ UNCHANGED midClosed
       \/ /\ disp.pc = "close"
          /\ midClosed' = midClosed + 1
          /\ disp' = [disp EXCEPT !.pc = "done"]
    /\ UNCHANGED <<restVars, log, dinCh, arrays, tasks, dwg, outp, outCh>>

\* detect up to its first send to the result stream: the task reads its
\* slice, writes the list file and runs the file command twice
detect_Run(t) ==
    /\ tasks[t].pc = "collect"
    /\ LET fs == SliceOf(tasks[t].arr, tasks[t].n)
       IN  \E cmd \in PipeCmds(fs) :
           \E rs \in TaskResults(fs, cmd, "none") :
                tasks' = [tasks EXCEPT ![t].pc = "send", ![t].cmd = cmd,
                                       ![t].results = rs]
    /\ UNCHANGED <<restVars, log, dinCh, disp, arrays, dwg, midClosed, outp, outCh>>

\* detect: defer wg.Done()
detect_Return(t) ==
    /\ tasks[t].pc = "return"
    /\ tasks' = [tasks EXCEPT ![t].pc = "done"]
    /\ dwg' = dwg - 1
    /\ UNCHANGED <<restVars, log, dinCh, disp, arrays, midClosed, outp, outCh>>

\* output: `if r.Error == nil`
outputPublishes(r) == r.Error = None

\* output: `for r := range inCh` meets `outCh <- ...` of the task t
output_Recv(t) ==
    /\ outp.pc = "recv" /\ midClosed = 0
    /\ tasks[t].pc = "send"
    /\ LET r == tasks[t].results[tasks[t].k]
       IN  outp' = [pc |-> IF outputPublishes(r) THEN "send" ELSE "warn", r |-> Some(r)]
    /\ tasks' = [tasks EXCEPT ![t].k = @ + 1,
                              ![t].pc = IF tasks[t].k = Len(tasks[t].results)
                                        THEN "return" ELSE "send"]
    /\ UNCHANGED <<restVars, log, dinCh, disp, arrays, dwg, midClosed, outCh>>

\* output: `outCh <- r.BlobMeta`, met by the caller's receive, or the
\* warning for an error result
output_Handle ==
    /\ \/ /\ outp.pc = "send"
          /\ outCh' = [outCh EXCEPT !.got = @ (+) SetToBag({outp.r[1].BlobMeta})]
          /\ log' = log
       \/ /\ outp.pc = "warn"
          /\ log' = Logged(log, "detect file type", <<>>)
          /\ outCh' = outCh
    /\ outp' = [pc |-> "recv", r |-> None]
    /\ UNCHANGED <<restVars, dinCh, disp, arrays, tasks, dwg, midClosed>>

\* output: the range ends on the closed result stream; close(outCh)
output_Close ==
    /\ outp.pc = "recv" /\ midClosed > 0
    /\ outCh' = [outCh EXCEPT !.closes = @ + 1]
    /\ outp' = [outp EXCEPT !.pc = "done"]
    /\ UNCHANGED <<restVars, log, dinCh, disp, arrays, tasks, dwg, midClosed>>

\* the input stream carries at most MaxInput Blobs
MaxInput == 3

\* the k-th Blob of the input stream: a loaded file of its own
StreamBlob(k) == InputBlob(k, <<k>>)

\* DetectMimeType(workDir, batch, inCh, lg): go output(midCh, outCh, lg),
\* go dispatch(workDir, batch, inCh, midCh)
InitPipeline ==
    /\ \E n \in 0..MaxInput :
            dinCh = [items |-> [k \in 1..n |-> StreamBlob(k)], next |-> 1,
                     closed |-> FALSE]
    /\ \E b \in 0..MaxBatch :
            /\ disp = [pc |-> "recv", batch |-> b, arr |-> 1, i |-> 0]
            /\ arrays = <<MakeFiles(b)>>
    /\ tasks = <<>> /\ dwg = 0 /\ midClosed = 0
    /\ outp = [pc |-> "recv", r |-> None]
    /\ outCh = [got |-> EmptyBag, closes |-> 0]
    /\ reader = IdleReader
    /\ dr = NoCopy
    /\ hashCall = NoHash
    /\ fblob = NoBlob
    /\ files = <<>> /\ path2meta = <<>>
    /\ fileCmd = [mime |-> None, desc |-> None]
    /\ lines = <<>> /\ toEmit = {} /\ dpc = "none" /\ midCh = <<>>
    /\ mainpc = "pipeline"
    /\ workerCnt = 0
    /\ newCall = Called(<<>>, TRUE, 0, 0)
    /\ sts = NewProcessStatus("none")
    /\ wg = 0
    /\ worker = <<>>
    /\ out = EmptyBag
    /\ log = EmptyBag
    /\ faults = 0
    /\ tree = [n \in Entries |-> [kind |-> "none", name |-> <<EntryChar(n)>>]]
    /\ walk = [pc |-> "idle", cur |-> None, stack |-> <<>>]
    /\ fileCh = [closes |-> 0, pushed |-> {}]
    /\ input = <<>>
    /\ inCh = [next |-> 1, closed |-> FALSE]
    /\ disk = <<>>
    /\ disk0 = <<>>
    /\ written = {}
    /\ rerun = FALSE
    /\ first = None

NextPipeline ==
    \/ DetectCaller_Close
    \/ dispatch_Recv
    \/ dispatch_Last
    \/ dispatch_WaitClose
    \/ \E t \in DOMAIN tasks : detect_Run(t)
    \/ \E t \in DOMAIN tasks : detect_Return(t)
    \/ \E t \in DOMAIN tasks : output_Recv(t)
    \/ output_Handle
    \/ output_Close

SpecPipeline == InitPipeline /\ [][NextPipeline]_vars

\* the pipeline with its goroutines scheduled fairly, every run of the
\* file command returning, and a caller that sends its Blobs, closes the
\* input stream and keeps receiving from the output stream
SpecPipelineFair == SpecPipeline /\ WF_vars(NextPipeline)


(* --------------------------- the status JSON --------------------------- *)

\* everything but the status, the position of its owner and its reader
statusRest ==
    <<workerCnt, wg, worker, out, faults, log, loadVars, storeVars, newCall,
      files, path2meta, fileCmd, lines, toEmit, dpc, midCh, pipeVars, hashCall,
      fblob, dr>>

\* the five counters of a status
Counters(s) == <<s.count, s.size, s.skipCount, s.skipSize, s.errorCount>>

\* a run's worker adds to one of the counters, any time before the run's
\* last worker has exited
Worker_Add ==
    /\ mainpc = "run"
    /\ \E n \in 1..MaxBlobs :
        /\ sts.count + sts.size + sts.skipCount + sts.skipSize + sts.errorCount + n <= MaxEntries
        /\ \E f \in 1..5 :
            sts' = CASE f = 1 -> AddCount(sts, n)
                     [] f = 2 -> AddSize(sts, n)
                     [] f = 3 -> AddSkipCount(sts, n)
                     [] f = 4 -> AddSkipSize(sts, n)
                     [] f = 5 -> AddErrorCount(sts, n)
    /\ UNCHANGED <<statusRest, mainpc, reader>>

\* the run's wg.Wait() returns: sts.Finish() is next
Worker_AllExited ==
    /\ mainpc = "run"
    /\ mainpc' = "finishTime"
    /\ UNCHANGED <<statusRest, sts, reader>>

\* r.finishTime as a reader sees it: NewProcessStatus sets it a minute
\* before the start, Finish to the time of the finish
FinishTime(s) == IF s.finishTimeSet THEN "finish" ELSE "start-60s"

\* JSONStr: the order of its reads
JSONStrOrder(pc) ==
    CASE pc = "idle" -> "done"
      [] pc = "done" -> "duration"
      [] pc = "duration" -> "count"
      [] pc = "count" -> "size"
      [] pc = "size" -> "skipCount"
      [] pc = "skipCount" -> "skipSize"
      [] pc = "skipSize" -> "errorCount"
      [] pc = "errorCount" -> "idle"

\* a caller asks for the status JSON
JSONStr_Call ==
    /\ mainpc \in {"run", "returned"} \cup FinishPcs
    /\ reader.pc = "idle"
    /\ reader' = [IdleReader EXCEPT !.pc = JSONStrOrder("idle")]
    /\ UNCHANGED <<statusRest, sts, mainpc>>

\* JSONStr: done := atomic.LoadInt32(r.done) == 1, and with done the
\* formatted r.finishTime
JSONStr_LoadDone ==
    /\ reader.pc = "done"
    /\ reader' = [reader EXCEPT !.pc = JSONStrOrder("done"),
                                !.Done = (sts.done = 1),
                                !.FinishTime = IF sts.done = 1
                                               THEN Some(FinishTime(sts)) ELSE None]
    /\ UNCHANGED <<statusRest, sts, mainpc>>

\* ProcessStatus.Duration, called by JSONStr: with the done flag set the
\* cached r.duration, computed from r.finishTime when it is negative, and
\* the time since the start otherwise
JSONStr_Duration ==
    /\ reader.pc = "duration"
    /\ IF sts.done = 1
       THEN LET d == IF sts.duration = "-1" THEN FinishTime(sts) ELSE sts.duration
            IN  /\ sts' = [sts EXCEPT !.duration = d]
                /\ reader' = [reader EXCEPT !.pc = JSONStrOrder("duration"),
                                            !.Duration = d]
       ELSE /\ reader' = [reader EXCEPT !.pc = JSONStrOrder("duration"),
                                        !.Duration = "now"]
            /\ sts' = sts
    /\ UNCHANGED <<statusRest, mainpc>>

\* JSONStr: the atomic.LoadInt64 of the five counters, one by one; after
\* the last the JSON is returned
JSONStr_LoadCounter ==
    /\ reader.pc \in {"count", "size", "skipCount", "skipSize", "errorCount"}
    /\ LET r == CASE reader.pc = "count" -> [reader EXCEPT !.Count = sts.count]
                  [] reader.pc = "size" -> [reader EXCEPT !.Size = sts.size]
                  [] reader.pc = "skipCount" -> [reader EXCEPT !.SkipCount = sts.skipCount]
                  [] reader.pc = "skipSize" -> [reader EXCEPT !.SkipSize = sts.skipSize]
                  [] reader.pc = "errorCount" -> [reader EXCEPT !.ErrorCount = sts.errorCount]
       IN  reader' = [r EXCEPT !.pc = JSONStrOrder(reader.pc),
                               !.json = IF reader.pc = "errorCount"
                                        THEN Some([Done |-> r.Done,
                                                   FinishTime |-> r.FinishTime,
                                                   Duration |-> r.Duration,
                                                   Counters |-> <<r.Count, r.Size,
                                                       r.SkipCount, r.SkipSize,
                                                       r.ErrorCount>>])
                                        ELSE @]
    /\ UNCHANGED <<statusRest, sts, mainpc>>

\* a status of either type whose run is under way
InitStatus ==
    /\ sts \in {NewLoadStatus, NewStoreStatus}
    /\ mainpc = "run"
    /\ NoDetect
    /\ workerCnt = 0
    /\ newCall = Called(<<>>, TRUE, 0, 0)
    /\ wg = 0
    /\ worker = <<>>
    /\ out = EmptyBag
    /\ log = EmptyBag
    /\ faults = 0
    /\ tree = [n \in Entries |-> [kind |-> "none", name |-> <<EntryChar(n)>>]]
    /\ walk = [pc |-> "idle", cur |-> None, stack |-> <<>>]
    /\ fileCh = [closes |-> 0, pushed |-> {}]
    /\ input = <<>>
    /\ inCh = [next |-> 1, closed |-> FALSE]
    /\ disk = <<>>
    /\ disk0 = <<>>
    /\ written = {}
    /\ rerun = FALSE
    /\ first = None

NextStatus ==
    \/ Worker_Add
    \/ Worker_AllExited
    \/ Finish
    \/ JSONStr_Call
    \/ JSONStr_LoadDone
    \/ JSONStr_Duration
    \/ JSONStr_LoadCounter

SpecStatus == InitStatus /\ [][NextStatus]_vars

(* --------------------------- the fingerprints -------------------------- *)

\* everything but the two Hash objects under construction
hashRest ==
    <<workerCnt, sts, wg, mainpc, worker, out, faults, log, loadVars, storeVars,
      newCall, pipeVars, reader, files, path2meta, fileCmd, lines, toEmit, dpc,
      midCh, fblob, dr>>

UpperDigits == <<"A", "B", "C", "D", "E", "F">>

\* hex.DecodeString's fromHexChar: the value of a digit of either case,
\* 16 for any other character
FromHexChar(c) ==
    IF \E i \in DOMAIN HexDigits : HexDigits[i] = c
    THEN (CHOOSE i \in DOMAIN HexDigits : HexDigits[i] = c) - 1
    ELSE IF \E i \in DOMAIN UpperDigits : UpperDigits[i] = c
    THEN (CHOOSE i \in DOMAIN UpperDigits : UpperDigits[i] = c) + 9
    ELSE 16

RECURSIVE DecodePairs(_)
DecodePairs(s) ==
    IF Len(s) < 2 THEN <<>>
    ELSE <<FromHexChar(s[1]) * 16 + FromHexChar(s[2])>> \o DecodePairs(SubSeq(s, 3, Len(s)))

\* hex.DecodeString: the bytes, or an error for a character that is no hex
\* digit or for an odd length
DecodeString(s) ==
    IF (\E i \in DOMAIN s : FromHexChar(s[i]) = 16) \/ Len(s) % 2 = 1
    THEN None
    ELSE Some(DecodePairs(s))

\* util.NewSha1HashFromHex: nil and the error of the decoding, or a Hash
\* with the decoded bytes and s itself as its hex form
NewSha1HashFromHex(s) ==
    LET data == DecodeString(s)
    IN  IF data = None THEN None
        ELSE Some([alg |-> Sha1Alg, data |-> data[1], hex |-> s, str |-> <<>>])

\* Hash.Hex and Hash.String as they leave the object: the form is cached
HexCached(h) == [h EXCEPT !.hex = Hex(h)]
StringCached(h) == [HexCached(h) EXCEPT !.str = HashString(h)]

\* the digests two Hash objects are made for
Digests == {Sha1Sum(c) : c \in Residue}

RECURSIVE Spellings(_)
\* the hex strings that decode to the bytes encoded by the lower-case s
Spellings(s) ==
    IF s = <<>> THEN {<<>>}
    ELSE LET c == Head(s)
             v == FromHexChar(c)
             cs == IF v >= 10 THEN {c, UpperDigits[v - 9]} ELSE {c}
         IN  {<<x>> \o r : x \in cs, r \in Spellings(Tail(s))}

\* the strings NewSha1HashFromHex is called with: the spellings of a
\* digest, one cut to an odd length, one with a character that is no digit
HexArgs(data) ==
    LET e == EncodeToString(data)
    IN  Spellings(e) \cup {Tail(e), <<"g">> \o Tail(e)}

\* NewSha1Hash(data)
Hash_NewSha1Hash ==
    /\ mainpc = "hash" /\ hashCall.a = None
    /\ hashCall' = [hashCall EXCEPT !.a = Some(NewSha1Hash(hashCall.data))]
    /\ UNCHANGED hashRest

\* NewSha1HashFromHex(s)
Hash_NewSha1HashFromHex ==
    /\ mainpc = "hash" /\ ~hashCall.called
    /\ hashCall' = [hashCall EXCEPT !.called = TRUE,
                                    !.b = NewSha1HashFromHex(hashCall.s)]
    /\ UNCHANGED hashRest

\* h.Hex() or h.String() on one of the two objects
Hash_Read ==
    /\ mainpc = "hash"
    /\ \E f \in {"a", "b"}, m \in {"Hex", "String"} :
        /\ hashCall[f] # None
        /\ hashCall' = [hashCall EXCEPT ![f] =
                            Some(IF m = "Hex" THEN HexCached(hashCall[f][1])
                                 ELSE StringCached(hashCall[f][1]))]
        /\ hashCall' # hashCall
    /\ UNCHANGED hashRest

\* a digest and a hex string written for it
InitHash ==
    /\ \E data \in Digests : \E s \in HexArgs(data) :
            hashCall = [data |-> data, s |-> s, a |-> None, called |-> FALSE,
                        b |-> None]
    /\ mainpc = "hash"
    /\ reader = IdleReader
    /\ dr = NoCopy
    /\ fblob = NoBlob
    /\ dinCh = [items |-> <<>>, next |-> 1, closed |-> FALSE]
    /\ disp = [pc |-> "none", batch |-> 0, arr |-> 0, i |-> 0]
    /\ arrays = <<>> /\ tasks = <<>> /\ dwg = 0 /\ midClosed = 0
    /\ outp = [pc |-> "none", r |-> None]
    /\ outCh = [got |-> EmptyBag, closes |-> 0]
    /\ files = <<>> /\ path2meta = <<>>
    /\ fileCmd = [mime |-> None, desc |-> None]
    /\ lines = <<>> /\ toEmit = {} /\ dpc = "none" /\ midCh = <<>>
    /\ workerCnt = 0
    /\ newCall = Called(<<>>, TRUE, 0, 0)
    /\ sts = NewProcessStatus("none")
    /\ wg = 0
    /\ worker = <<>>
    /\ out = EmptyBag
    /\ log = EmptyBag
    /\ faults = 0
    /\ tree = [n \in Entries |-> [kind |-> "none", name |-> <<EntryChar(n)>>]]
    /\ walk = [pc |-> "idle", cur |-> None, stack |-> <<>>]
    /\ fileCh = [closes |-> 0, pushed |-> {}]
    /\ input = <<>>
    /\ inCh = [next |-> 1, closed |-> FALSE]
    /\ disk = <<>>
    /\ disk0 = <<>>
    /\ written = {}
    /\ rerun = FALSE
    /\ first = None

NextHash ==
    \/ Hash_NewSha1Hash
    \/ Hash_NewSha1HashFromHex
    \/ Hash_Read

SpecHash == InitHash /\ [][NextHash]_vars

(* --------------------------- a source Blob ----------------------------- *)

\* everything but the Blob whose methods are called
blobRest ==
    <<workerCnt, sts, wg, mainpc, worker, out, faults, log, loadVars, storeVars,
      newCall, pipeVars, reader, hashCall, files, path2meta, fileCmd, lines,
      toEmit, dpc, midCh, dr>>

\* f.Load(): with content in memory size and hash are taken from it; else
\* the file is opened and read, which may fail and then leaves f as it is
FileBlob_Load ==
    /\ mainpc = "blob"
    /\ \/ fblob' = [fblob EXCEPT
                !.f = Load(@, IF @.blob # None THEN @.blob[1] ELSE fblob.file),
                !.last = "Load", !.err = FALSE, !.freed = FALSE]
       \/ /\ fblob.f.blob = None
          /\ fblob' = [fblob EXCEPT !.last = "Load", !.err = TRUE]
    /\ UNCHANGED blobRest

\* f.Free()
FileBlob_Free ==
    /\ mainpc = "blob"
    /\ fblob' = [fblob EXCEPT !.f = Free(@), !.last = "Free", !.err = FALSE,
                              !.freed = TRUE]
    /\ UNCHANGED blobRest

\* f.ReadCloser(): an error when f.blob is nil
FileBlob_ReadCloser ==
    /\ mainpc = "blob"
    /\ fblob' = [fblob EXCEPT !.last = "ReadCloser", !.err = (fblob.f.blob = None)]
    /\ UNCHANGED blobRest

\* the file is written anew between two calls
File_Rewritten ==
    /\ mainpc = "blob"
    /\ \E c \in Residue : c # fblob.file /\ fblob' = [fblob EXCEPT !.file = c]
    /\ UNCHANGED blobRest

\* NewFileBlob(path) for a file of the source
InitBlob ==
    /\ \E n \in Entries, c \in Residue :
            fblob = [f |-> NewFileBlob(Join(<<SourceRoot, <<EntryChar(n)>>>>)),
                     file |-> c, last |-> "NewFileBlob", err |-> FALSE,
                     freed |-> FALSE]
    /\ mainpc = "blob"
    /\ reader = IdleReader
    /\ dr = NoCopy
    /\ hashCall = NoHash
    /\ dinCh = [items |-> <<>>, next |-> 1, closed |-> FALSE]
    /\ disp = [pc |-> "none", batch |-> 0, arr |-> 0, i |-> 0]
    /\ arrays = <<>> /\ tasks = <<>> /\ dwg = 0 /\ midClosed = 0
    /\ outp = [pc |-> "none", r |-> None]
    /\ outCh = [got |-> EmptyBag, closes |-> 0]
    /\ files = <<>> /\ path2meta = <<>>
    /\ fileCmd = [mime |-> None, desc |-> None]
    /\ lines = <<>> /\ toEmit = {} /\ dpc = "none" /\ midCh = <<>>
    /\ workerCnt = 0
    /\ newCall = Called(<<>>, TRUE, 0, 0)
    /\ sts = NewProcessStatus("none")
    /\ wg = 0
    /\ worker = <<>>
    /\ out = EmptyBag
    /\ log = EmptyBag
    /\ faults = 0
    /\ tree = [n \in Entries |-> [kind |-> "none", name |-> <<EntryChar(n)>>]]
    /\ walk = [pc |-> "idle", cur |-> None, stack |-> <<>>]
    /\ fileCh = [closes |-> 0, pushed |-> {}]
    /\ input = <<>>
    /\ inCh = [next |-> 1, closed |-> FALSE]
    /\ disk = <<>>
    /\ disk0 = <<>>
    /\ written = {}
    /\ rerun = FALSE
    /\ first = None

NextBlob ==
    \/ FileBlob_Load
    \/ FileBlob_Free
    \/ FileBlob_ReadCloser
    \/ File_Rewritten

SpecBlob == InitBlob /\ [][NextBlob]_vars

(* ------------------- a Load run feeding a Store run --------------------- *)

\* everything the store run of the copy and its savers leave alone
copyRest ==
    <<workerCnt, sts, wg, mainpc, out, loadVars, input, inCh, disk0, rerun, first,
      newCall, files, path2meta, fileCmd, lines, toEmit, dpc, midCh, pipeVars,
      reader, hashCall, fblob>>

\* `range inCh` wakes one of the savers that wait, taken to be the lowest
WakesSaver(s) ==
    /\ dr.saver[s].pc = "recv"
    /\ \A t \in Workers : t < s => dr.saver[t].pc # "recv"

\* a saver that leaves as soon as no loader offers a Blob
dr_save_ExitWhenIdle(s) ==
    /\ WakesSaver(s)
    /\ \A l \in Workers : worker[l].pc # "send"
    /\ dr' = [dr EXCEPT !.saver[s].pc = "exited", !.wg = @ - 1]
    /\ UNCHANGED <<copyRest, worker, disk, written, faults, log>>

\* save: the range over sr.Blob() ends once Finish of the load status has
\* closed that queue; defer wg.Done()
dr_save_Exit(s) ==
    /\ WakesSaver(s)
    /\ sts.blobChanCloses > 0
    /\ dr' = [dr EXCEPT !.saver[s].pc = "exited", !.wg = @ - 1]
    /\ UNCHANGED <<copyRest, worker, disk, written, faults, log>>

\* save: `for blob := range inCh` meets `blobCh <- blob` of the loader l;
\* blobSize and blobPath are derived from the Blob
dr_save_Recv(l, s) ==
    /\ worker[l].pc = "send" /\ sts.blobChanCloses = 0
    /\ WakesSaver(s)
    /\ dr' = [dr EXCEPT !.saver[s] =
            [pc |-> "exists", item |-> worker[l].item, err |-> "",
             path |-> BlobPath(TargetRoot, worker[l].item[1].hash[1])]]
    /\ worker' = [worker EXCEPT ![l] = [IdleWorker EXCEPT !.pc = "recv"]]
    /\ UNCHANGED <<copyRest, disk, written, faults, log>>

\* save: blobExists(blobPath, blobSize)
dr_save_Exists(s) ==
    /\ dr.saver[s].pc = "exists"
    /\ \/ /\ dr' = [dr EXCEPT !.saver[s].pc =
                IF blobExists(disk, dr.saver[s].path, dr.saver[s].item[1].size)
                THEN "addSkipCount" ELSE "open"]
          /\ UNCHANGED faults
       \/ /\ faults < MaxFaults
          /\ faults' = faults + 1
          /\ dr' = [dr EXCEPT !.saver[s].pc = "addError",
                              !.saver[s].err = "check target blob error"]
    /\ UNCHANGED <<copyRest, worker, disk, written, log>>

\* save: sts.AddSkipCount(1); sts.AddSkipSize(blobSize); continue
dr_save_Skip(s) ==
    /\ \/ /\ dr.saver[s].pc = "addSkipCount"
          /\ dr' = [dr EXCEPT !.sts = AddSkipCount(@, 1),
                              !.saver[s].pc = "addSkipSize"]
          /\ log' = log
       \/ /\ dr.saver[s].pc = "addSkipSize"
          /\ dr' = [dr EXCEPT !.sts = AddSkipSize(@, dr.saver[s].item[1].size),
                              !.saver[s] = [IdleWorker EXCEPT !.pc = "recv"]]
          /\ log' = Logged(log, "skip existing", dr.saver[s].item[1].path)
    /\ UNCHANGED <<copyRest, worker, disk, written, faults>>

\* save: os.MkdirAll, blob.ReadCloser() and saveFile: os.OpenFile, then
\* io.Copy, which on failure has written a proper prefix
dr_save_Write(s) ==
    /\ \/ /\ dr.saver[s].pc = "open"
          /\ \/ /\ disk' = OpenFile(disk, dr.saver[s].path)
                /\ written' = written \cup {dr.saver[s].path}
                /\ dr' = [dr EXCEPT !.saver[s].pc = "write"]
                /\ UNCHANGED faults
             \/ /\ faults < MaxFaults
                /\ faults' = faults + 1
                /\ \E e \in {"mkdir error", "blob reader error", "save blob error"} :
                        dr' = [dr EXCEPT !.saver[s].pc = "addError",
                                         !.saver[s].err = e]
                /\ UNCHANGED <<disk, written>>
       \/ /\ dr.saver[s].pc = "write"
          /\ LET bytes == dr.saver[s].item[1].blob[1]
             IN  \/ /\ disk' = CopyTo(disk, dr.saver[s].path, bytes)
                    /\ dr' = [dr EXCEPT !.saver[s].pc = "addCount"]
                    /\ UNCHANGED faults
                 \/ /\ faults < MaxFaults
                    /\ faults' = faults + 1
                    /\ \E k \in 0..(Len(bytes) - 1) :
                            disk' = CopyTo(disk, dr.saver[s].path, SubSeq(bytes, 1, k))
                    /\ dr' = [dr EXCEPT !.saver[s].pc = "addError",
                                        !.saver[s].err = "save blob error"]
          /\ UNCHANGED written
    /\ UNCHANGED <<copyRest, worker, log>>

\* save: sts.AddErrorCount(1); continue
dr_save_AddErrorCount(s) ==
    /\ dr.saver[s].pc = "addError"
    /\ dr' = [dr EXCEPT !.sts = AddErrorCount(@, 1),
                        !.saver[s] = [IdleWorker EXCEPT !.pc = "recv"]]
    /\ log' = Logged(log, dr.saver[s].err, dr.saver[s].item[1].path)
    /\ UNCHANGED <<copyRest, worker, disk, written, faults>>

\* save: sts.AddCount(1); sts.AddSize(blobSize); then the saver stands at
\* `outCh <- &FileBlob{...}`, outCh being the Blob channel of dr
dr_save_Count(s) ==
    /\ \/ /\ dr.saver[s].pc = "addCount"
          /\ dr' = [dr EXCEPT !.sts = AddCount(@, 1), !.saver[s].pc = "addSize"]
          /\ log' = log
       \/ /\ dr.saver[s].pc = "addSize"
          /\ dr' = [dr EXCEPT
                !.sts = AddSize(@, dr.saver[s].item[1].size),
                !.saver[s].pc = "send",
                !.saver[s].item = Some(Relocated(dr.saver[s].item[1], dr.saver[s].path))]
          /\ log' = Logged(log, "done saving", dr.saver[s].item[1].path)
    /\ UNCHANGED <<copyRest, worker, disk, written, faults>>

\* store: wg.Add(saverCnt) and go save(...) per saver; wg.Wait()
dr_store ==
    /\ \/ /\ dr.pc = "start"
          /\ dr' = [dr EXCEPT !.wg = @ + workerCnt, !.saver = StartWorkers,
                              !.pc = "wait"]
       \/ /\ dr.pc = "wait" /\ WaitReturns(dr.wg)
          /\ dr' = [dr EXCEPT !.pc = "finishTime"]
    /\ UNCHANGED <<copyRest, worker, disk, written, faults, log>>

\* store: sts.Finish(), one statement per step
dr_Finish ==
    /\ dr.pc \in FinishPcs
    /\ dr' = [dr EXCEPT !.sts = FinishStep(@, dr.pc), !.pc = FinishNext(dr.pc)]
    /\ UNCHANGED <<copyRest, worker, disk, written, faults, log>>

\* main: <-sr.Done(), then <-dr.Done(); nothing receives from dr.Blob()
main_Wait ==
    /\ \/ /\ dr.main = "waitLoad" /\ sts.doneChanCloses > 0
          /\ dr' = [dr EXCEPT !.main = "waitStore"]
       \/ /\ dr.main = "waitStore" /\ dr.sts.doneChanCloses > 0
          /\ dr' = [dr EXCEPT !.main = "done"]
    /\ UNCHANGED <<copyRest, worker, disk, written, faults, log>>

\* the source trees of the copy: files in the root, hidden or not
CopyTrees == {t \in Trees : \A n \in Entries : t[n].kind # "dir"}

\* main: sr := src.Scan(); dr := dst.Store(sr.Blob()), source and target
\* made with pools of the same size
InitCopy ==
    /\ workerCnt \in PoolSizes
    /\ wg = 0
    /\ mainpc = "start"
    /\ worker = [w \in Workers |-> IdleWorker]
    /\ out = EmptyBag
    /\ log = EmptyBag
    /\ faults = 0
    /\ sts = NewLoadStatus
    /\ newCall = Return(Called(SourceRoot, TRUE, workerCnt, workerCnt))
    /\ tree \in CopyTrees
    /\ walk = [pc |-> "idle", cur |-> None, stack |-> <<>>]
    /\ fileCh = [closes |-> 0, pushed |-> {}]
    /\ input = <<>>
    /\ inCh = [next |-> 1, closed |-> FALSE]
    /\ disk \in Targets
    /\ disk0 = disk
    /\ written = {}
    /\ rerun = FALSE
    /\ first = None
    /\ dr = [sts |-> NewStoreStatus, wg |-> 0, pc |-> "start",
             saver |-> [w \in Workers |-> IdleWorker], main |-> "waitLoad"]
    /\ reader = IdleReader
    /\ hashCall = NoHash
    /\ fblob = NoBlob
    /\ dinCh = [items |-> <<>>, next |-> 1, closed |-> FALSE]
    /\ disp = [pc |-> "none", batch |-> 0, arr |-> 0, i |-> 0]
    /\ arrays = <<>> /\ tasks = <<>> /\ dwg = 0 /\ midClosed = 0
    /\ outp = [pc |-> "none", r |-> None]
    /\ outCh = [got |-> EmptyBag, closes |-> 0]
    /\ files = <<>> /\ path2meta = <<>>
    /\ fileCmd = [mime |-> None, desc |-> None]
    /\ lines = <<>> /\ toEmit = {} /\ dpc = "none" /\ midCh = <<>>

NextCopy ==
    \/ NextLoad
    \/ Finish
    \/ dr_store
    \/ dr_Finish
    \/ main_Wait
    \/ \E l, s \in Workers : dr_save_Recv(l, s)
    \/ \E s \in Workers : dr_save_Exit(s)
    \/ \E s \in Workers : dr_save_Exists(s)
    \/ \E s \in Workers : dr_save_Skip(s)
    \/ \E s \in Workers : dr_save_Write(s)
    \/ \E s \in Workers : dr_save_AddErrorCount(s)
    \/ \E s \in Workers : dr_save_Count(s)

SpecCopy == InitCopy /\ [][NextCopy]_vars

\* the copy with every goroutine scheduled fairly
SpecCopyFair == SpecCopy /\ WF_vars(NextCopy)

(* ------------------------- what the claims count ----------------------- *)

RECURSIVE SumFn(_)
\* the sum of a function's values
SumFn(w) ==
    IF DOMAIN w = {} THEN 0
    ELSE LET x == CHOOSE x \in DOMAIN w : TRUE
         IN  w[x] + SumFn([y \in DOMAIN w \ {x} |-> w[y]])

\* the number of log lines with one of the messages
LogCount(msgs) == SumFn([e \in {e \in DOMAIN log : e.msg \in msgs} |-> log[e]])

\* the Blobs received from the output queue, and their sizes
Emitted == BagCardinality(out)
EmittedSize == SumFn([b \in DOMAIN out |-> out[b] * b.size])

IsLoad == sts.typ = "load"
IsStore == sts.typ = "store"
Returned == mainpc = "returned"
AllExited == \A w \in Workers : worker[w].pc = "exited"

(* -------------------------------- claims ------------------------------- *)

\* C1: in every Load run and every Store run Finish runs once, after
\* load() / store() is through its barrier: the done flag is 1 from the
\* second statement of Finish on and 0 before, blobChan and doneChan are
\* never closed a second time (no close panics), and when load() / store()
\* has returned the flag is 1 and each channel has been closed exactly once.
C1_FinishExactlyOnce ==
    /\ sts.blobChanCloses <= 1 /\ sts.doneChanCloses <= 1
    /\ sts.panics = 0
    /\ sts.done = 1 <=> mainpc \in {"finishCloseBlob", "finishCloseDone", "returned"}
    /\ sts.blobChanCloses = 1 <=> mainpc \in {"finishCloseDone", "returned"}
    /\ sts.doneChanCloses = 1 <=> Returned
    /\ Returned =>
            /\ sts.done = 1 /\ sts.finishTimeSet
            /\ sts.blobChanCloses = 1 /\ sts.doneChanCloses = 1
    /\ mainpc \notin (FinishPcs \cup {"returned"}) =>
            /\ sts.done = 0
            /\ sts.blobChanCloses = 0 /\ sts.doneChanCloses = 0

\* a run of two workers that emitted something has finished
C1_Witness ==
    /\ Returned /\ workerCnt = 2 /\ Emitted > 0
    /\ sts.done = 1 /\ sts.blobChanCloses = 1 /\ sts.doneChanCloses = 1

\* C2: the output queue is closed and the done flag set only after every
\* worker of the pool has left its loop, and no worker stands at its send
\* on the output queue once the queue is closed.
C2_CloseAfterBarrier ==
    /\ (sts.done = 1 \/ sts.blobChanCloses > 0 \/ sts.doneChanCloses > 0) => AllExited
    /\ \A w \in Workers : ~SendOnClosed(w)

\* both workers of a pool emitted, left, and the queue is closed
C2_Witness ==
    /\ sts.blobChanCloses = 1 /\ sts.done = 1
    /\ workerCnt = 2 /\ AllExited /\ Emitted = 2


\* the two Blobs of the run carry the same content under different names
TwoAlike ==
    /\ Len(input) = 2
    /\ input[1].hash = input[2].hash /\ input[1].size = input[2].size
    /\ input[1].name # input[2].name

\* C3: a Store run into an empty target that is handed exactly two Blobs of
\* identical content under different names ends, with no failing call, with
\* count = 1 and skipCount = 1 and one stored file in the target, whatever the
\* pool size and the interleaving of the savers.
C3_DuplicateStoredOnce ==
    (IsStore /\ ~rerun /\ Returned /\ disk0 = <<>> /\ TwoAlike /\ faults = 0)
        => /\ sts.count = 1 /\ sts.skipCount = 1
           /\ Cardinality(DOMAIN disk) = 1

\* two savers both found the path free: both Blobs counted as stored
C3_Witness ==
    /\ IsStore /\ ~rerun /\ Returned /\ disk0 = <<>> /\ TwoAlike /\ faults = 0
    /\ workerCnt = 2 /\ sts.count = 2 /\ sts.skipCount = 0
    /\ Cardinality(DOMAIN disk) = 1

\* C4: when the first Store run of some Blobs ended with errorCount = 0, a
\* second Store run of the same Blobs into the same target ends, with no
\* failing call, with count = 0, errorCount = 0 and skipCount = the number of
\* Blobs, and has opened no file of the target for writing.
C4_SecondRunSkipsAll ==
    (IsStore /\ rerun /\ Returned /\ faults = 0 /\ first[1].errorCount = 0)
        => /\ sts.count = 0 /\ sts.errorCount = 0
           /\ sts.skipCount = Len(input)
           /\ sts.skipCount = first[1].count + first[1].skipCount
           /\ written = {}

\* the second run stored a Blob again: the file it met is longer than the Blob
C4_Witness ==
    /\ IsStore /\ rerun /\ Returned /\ faults = 0 /\ first[1].errorCount = 0
    /\ sts.count > 0 /\ written # {}
    /\ \E p \in written : \E k \in 1..Len(input) :
            /\ p = BlobPath(TargetRoot, input[k].hash[1])
            /\ Len(disk[p]) > input[k].size


\* what saver s does, in one of its steps, to the Blob it has in hand
C5_Step(s) ==
    LET w == worker[s]
        there == w.path \in DOMAIN disk
                    /\ Len(disk[w.path]) = Len(w.item[1].blob[1])
    IN  /\ (w.pc = "exists" /\ worker'[s].pc # "exists" /\ faults' = faults)
                => (worker'[s].pc = "addSkipCount" <=> there)
        /\ (w.pc = "addSkipCount" /\ worker'[s].pc # "addSkipCount")
                => /\ sts' = [sts EXCEPT !.skipCount = @ + 1]
                   /\ worker'[s].pc = "addSkipSize"
                   /\ disk' = disk /\ written' = written /\ out' = out
        /\ (w.pc = "addSkipSize" /\ worker'[s].pc # "addSkipSize")
                => /\ sts' = [sts EXCEPT !.skipSize = @ + Len(w.item[1].blob[1])]
                   /\ worker'[s].pc = "recv" /\ worker'[s].item = None
                   /\ disk' = disk /\ written' = written /\ out' = out

\* C5: when the stat of a Blob's target path succeeds, the saver takes the
\* skip branch exactly when a file is there whose size equals the Blob's
\* byte length, whatever the file holds; on that branch it adds 1 to
\* skipCount and the byte length to skipSize, changes no other counter and
\* not the target, and goes back to the input queue without a send.
C5_DedupCheck == [][IsStore => \A s \in Workers : C5_Step(s)]_vars

\* a Blob is skipped on a file of its size that holds other bytes
C5_Witness ==
    /\ IsStore
    /\ \E s \in Workers :
        /\ worker[s].pc = "addSkipSize"
        /\ Len(disk[worker[s].path]) = worker[s].item[1].size
        /\ disk[worker[s].path] # worker[s].item[1].blob[1]
        /\ sts.skipCount = 1 /\ sts.count = 0 /\ disk = disk0

\* the log lines of a Store run about the input Blob with this path
StoreLines(msgs, path) ==
    SumFn([e \in {e \in DOMAIN log : e.msg \in msgs /\ e.path = path} |-> log[e]])

\* the sum of the byte lengths of the input Blobs with a log line of msgs
StoreBytes(msgs) ==
    SumFn([k \in {k \in 1..Len(input) : StoreLines(msgs, input[k].path) > 0}
            |-> Len(input[k].blob[1])])

StoredMsgs == {"done saving"}
SkippedMsgs == {"skip existing"}
FailedMsgs ==
    {"check target blob error", "mkdir error", "blob reader error", "save blob error"}

\* C6: when a Store run is done, count + skipCount + errorCount is the number
\* of Blobs taken from the input queue; every input Blob was stored, skipped
\* or failed exactly once and count, skipCount and errorCount are the numbers
\* of the three kinds; size and skipSize are the sums of the byte lengths of
\* the stored and of the skipped Blobs.
C6_StoreCountersExact ==
    (IsStore /\ Returned) =>
        /\ sts.count + sts.skipCount + sts.errorCount = inCh.next - 1
        /\ inCh.next - 1 = Len(input)
        /\ \A k \in 1..Len(input) :
                StoreLines(StoredMsgs \cup SkippedMsgs \cup FailedMsgs,
                           input[k].path) = 1
        /\ sts.count = LogCount(StoredMsgs)
        /\ sts.skipCount = LogCount(SkippedMsgs)
        /\ sts.errorCount = LogCount(FailedMsgs)
        /\ sts.size = StoreBytes(StoredMsgs)
        /\ sts.skipSize = StoreBytes(SkippedMsgs)

\* two savers are done with a stored Blob and a skipped Blob of two bytes
C6_Witness ==
    /\ IsStore /\ Returned /\ workerCnt = 2 /\ Len(input) = 2
    /\ sts.count = 1 /\ sts.skipCount = 1 /\ sts.skipSize = 2

\* C7: when a Load run is done, count plus the number of failed file loads
\* is the number of paths pushed on the path queue, count is the number of
\* Blobs received from the output queue and size the sum of their sizes;
\* errorCount is the number of failed loads and failed directory reads.
C7_LoadCountersExact ==
    (IsLoad /\ Returned) =>
        /\ sts.count + LogCount({"load"}) = Cardinality(fileCh.pushed)
        /\ sts.count = Emitted
        /\ sts.size = EmittedSize
        /\ \A b \in DOMAIN out :
                out[b] = 1 /\ b.path \in fileCh.pushed /\ b.size = Len(b.blob[1])
        /\ sts.errorCount = LogCount({"load", "open dir error", "read dir error"})

\* two loaders are done with a loaded file and a failed load
C7_Witness ==
    /\ IsLoad /\ Returned /\ workerCnt = 2
    /\ Cardinality(fileCh.pushed) = 2
    /\ sts.count = 1 /\ LogCount({"load"}) = 1 /\ Emitted = 1 /\ sts.size > 0


\* entry n is there, and its name starts with a dot
Present(n) == tree[n].kind # "none"
HiddenName(n) == Head(tree[n].name) = "."

RECURSIVE BelowHidden(_)
\* some directory above entry n has a hidden name
BelowHidden(n) ==
    Parent(n) # 0 /\ (HiddenName(Parent(n)) \/ BelowHidden(Parent(n)))

HiddenFiles == {n \in Entries : tree[n].kind = "file" /\ HiddenName(n)}
PlainFiles == {n \in Entries : tree[n].kind = "file" /\ ~HiddenName(n)}

\* C8 as stated: after a Load with no failing call of a tree that holds
\* hidden and non-hidden files, skipCount is the number of hidden files of
\* the tree and count the number of its non-hidden files.
C8_CountsAllFiles ==
    (IsLoad /\ Returned /\ faults = 0 /\ HiddenFiles # {} /\ PlainFiles # {})
        => /\ sts.skipCount = Cardinality(HiddenFiles)
           /\ sts.count = Cardinality(PlainFiles)

\* C8: after a Load with no failing call, skipCount is the number of hidden
\* entries, files and directories, that lie below no hidden directory, and
\* count is the number of non-hidden files that lie below no hidden directory.
C8_CountsReachedEntries ==
    (IsLoad /\ Returned /\ faults = 0)
        => /\ sts.skipCount =
                Cardinality({n \in Entries :
                                Present(n) /\ HiddenName(n) /\ ~BelowHidden(n)})
           /\ sts.count = Cardinality({n \in PlainFiles : ~BelowHidden(n)})

\* a hidden directory with a plain file in it, next to a hidden file
C8_Witness ==
    /\ IsLoad /\ Returned /\ faults = 0
    /\ tree[1].kind = "dir" /\ HiddenName(1)
    /\ tree[2].kind = "file" /\ HiddenName(2)
    /\ tree[3].kind = "file" /\ ~HiddenName(3)
    /\ sts.skipCount = 2 /\ sts.count = 0

\* what one step does when the walker takes an entry or adds to skipSize
C9_Step ==
    /\ (walk'.cur # walk.cur /\ walk'.cur # None) =>
            LET n == walk'.cur[1].entry
            IN  IF HiddenName(n)
                THEN /\ sts' = [sts EXCEPT !.skipCount = @ + 1]
                     /\ walk'.pc = IF tree[n].kind = "dir" THEN "iter" ELSE "skipSize"
                     /\ Len(walk'.stack) = Len(walk.stack)
                     /\ fileCh' = fileCh
                ELSE sts' = sts
    /\ sts'.skipCount # sts.skipCount => walk'.cur # walk.cur
    /\ sts'.skipSize # sts.skipSize =>
            LET n == walk.cur[1].entry
            IN  /\ walk.pc = "skipSize" /\ walk'.pc = "iter" /\ walk'.cur = walk.cur
                /\ tree[n].kind = "file" /\ HiddenName(n)
                /\ sts' = [sts EXCEPT !.skipSize = @ + Len(FileContent(n))]

SkipMsgs == {"skip dir", "skip file"}

\* nothing at or below a hidden entry is walked, pushed, loaded or counted
C9_Clean ==
    /\ \A i \in 1..Len(walk.stack) :
            LET d == walk.stack[i].dir
            IN  d # 0 => (~HiddenName(d) /\ ~BelowHidden(d))
    /\ \A n \in Entries :
            /\ EntryPath(n) \in fileCh.pushed => (~HiddenName(n) /\ ~BelowHidden(n))
            /\ \A e \in DOMAIN log :
                    e.path = EntryPath(n) =>
                        /\ ~BelowHidden(n)
                        /\ log[e] = 1
                        /\ HiddenName(n) <=> e.msg \in SkipMsgs
                        /\ e.msg = "skip dir" => tree[n].kind = "dir"
                        /\ e.msg = "skip file" => tree[n].kind = "file"
    /\ sts.skipCount = LogCount(SkipMsgs) + (IF walk.pc = "skipSize" THEN 1 ELSE 0)
    /\ sts.skipSize =
            SumFn([n \in {n \in Entries :
                            LogLine("skip file", EntryPath(n)) \in DOMAIN log}
                    |-> Len(FileContent(n))])
    /\ sts.count <= Cardinality(fileCh.pushed)
    /\ sts.errorCount = LogCount({"load", "open dir error", "read dir error"})

\* C9: on every entry with a hidden name the walker adds 1 to skipCount,
\* adds the size to skipSize only for a file, and does not walk into it or
\* push it; no path at or below a skipped directory is ever on the walker's
\* stack, pushed on the path queue, or counted in any counter.
C9_SkippedLeftAlone == [](IsLoad => C9_Clean) /\ [][IsLoad => C9_Step]_vars

\* a hidden directory with a file in it was skipped, and a hidden file too
C9_Witness ==
    /\ IsLoad /\ Returned
    /\ tree[1].kind = "dir" /\ HiddenName(1) /\ tree[3].kind = "file"
    /\ tree[2].kind = "file" /\ HiddenName(2)
    /\ sts.skipCount = 2 /\ sts.skipSize = Len(FileContent(2)) /\ sts.skipSize > 0
    /\ fileCh.pushed = {}

\* root/alg/h[0:2]/h[2:4]/h[4:6]/h[6:8]/h, spelled out
Sharded(root, h) ==
    LET hex == Hex(h)
    IN  root \o <<Sep>> \o h.alg
             \o <<Sep>> \o SubSeq(hex, 1, 2) \o <<Sep>> \o SubSeq(hex, 3, 4)
             \o <<Sep>> \o SubSeq(hex, 5, 6) \o <<Sep>> \o SubSeq(hex, 7, 8)
             \o <<Sep>> \o hex

\* C10: the path a saver checks and writes for a Blob, every file a Store
\* run creates, and the path and url of every relocated Blob are
\* root/alg/h[0:2]/h[2:4]/h[4:6]/h[6:8]/h for the Blob's algorithm and digest.
C10_ShardingExact ==
    IsStore =>
        /\ \A s \in Workers :
                worker[s].item # None =>
                    /\ worker[s].path = Sharded(TargetRoot, worker[s].item[1].hash[1])
                    /\ worker[s].pc = "send" => worker[s].item[1].path = worker[s].path
        /\ \A p \in written \cup (DOMAIN disk \ DOMAIN disk0) :
                \E k \in 1..Len(input) : p = Sharded(TargetRoot, input[k].hash[1])
        /\ \A b \in DOMAIN out :
                /\ b.path = Sharded(TargetRoot, b.hash[1])
                /\ b.url = <<"f", "i", "l", "e", ":", "/", "/">> \o b.path
                /\ b.path \in DOMAIN disk

\* a relocated Blob was received whose file the run created
C10_Witness ==
    /\ IsStore
    /\ \E b \in DOMAIN out :
            /\ b.path = Sharded(TargetRoot, NewSha1Hash(Sha1Sum(<<2, 1>>)))
            /\ b.path \in DOMAIN disk \ DOMAIN disk0
            /\ disk[b.path] = <<2, 1>>
            /\ Len(b.path) = Len(TargetRoot) + 5 + 4 * 3 + 9


\* the digest directory of a Blob and the two files the layout names in it
DigestDir(b) == Sharded(TargetRoot, b.hash[1])
MetaPath(b) == DigestDir(b) \o <<Sep, "m", "e", "t", "a">>
BlobFilePath(b) == DigestDir(b) \o <<Sep, "b", "l", "o", "b">>

\* the metadata record of a Blob: composite hash string, size, name
MetaRecord(b) == [hash |-> HashString(b.hash[1]), size |-> b.size, name |-> b.name]

\* the savers that have counted the Blob they hold as stored
Counted == {s \in Workers : worker[s].pc \in {"addSize", "send"}}

\* C11: a Blob that a saver has counted in count has a meta file (composite
\* hash string, size, name) and a blob file (the raw content) in its digest
\* directory root/alg/hh/hh/hh/hh/<hex>/, and no blob file is in a digest
\* directory that has no meta file (meta is written first).
C11_MetaAndBlobFiles ==
    IsStore =>
        /\ \A s \in Counted :
                LET b == worker[s].item[1]
                IN  /\ MetaPath(b) \in DOMAIN disk
                    /\ BlobFilePath(b) \in DOMAIN disk
                    /\ disk[MetaPath(b)] = MetaRecord(b)
                    /\ disk[BlobFilePath(b)] = input[CHOOSE k \in 1..Len(input) :
                                                        input[k].name = b.name].blob[1]
        /\ \A k \in 1..Len(input) :
                BlobFilePath(input[k]) \in DOMAIN disk
                    => MetaPath(input[k]) \in DOMAIN disk

\* a Blob is counted whose content is the file <hex> itself: the target
\* holds neither <hex>/meta nor <hex>/blob
C11_Witness ==
    /\ IsStore /\ faults = 0 /\ disk0 = <<>>
    /\ \E s \in Counted :
            LET b == worker[s].item[1]
            IN  /\ worker[s].pc = "addSize"
                /\ sts.count = 1
                /\ DOMAIN disk = {DigestDir(b)}
                /\ disk[DigestDir(b)] = b.blob[1]
                /\ MetaPath(b) \notin DOMAIN disk
                /\ BlobFilePath(b) \notin DOMAIN disk


\* the input Blob a saver's Blob or an emitted Blob stems from, by its name
InputNamed(name) == input[CHOOSE k \in 1..Len(input) : input[k].name = name]

\* b is the relocated form of the input Blob in: a new value, content
\* cleared, fingerprint, size and name kept, located at the target path
RelocatedFrom(b, in) ==
    /\ b.blob = None
    /\ b.hash = in.hash /\ b.size = in.size /\ b.name = in.name
    /\ b.path = Sharded(TargetRoot, in.hash[1])
    /\ b.url = <<"f", "i", "l", "e", ":", "/", "/">> \o b.path
    /\ b # in

\* what saver s does in one step after its write succeeded
C12_Step(s) ==
    LET w == worker[s]
    IN  /\ (w.pc = "write" /\ worker'[s].pc # "write" /\ faults' = faults)
                => worker'[s].pc = "addCount"
        /\ (w.pc = "addCount" /\ worker'[s].pc # "addCount")
                => /\ sts' = [sts EXCEPT !.count = @ + 1]
                   /\ worker'[s].pc = "addSize" /\ out' = out
        /\ (w.pc = "addSize" /\ worker'[s].pc # "addSize")
                => /\ sts' = [sts EXCEPT !.size = @ + Len(w.item[1].blob[1])]
                   /\ worker'[s].pc = "send" /\ out' = out
                   /\ RelocatedFrom(worker'[s].item[1], w.item[1])
        /\ (w.pc = "send" /\ worker'[s].pc # "send")
                => /\ out' = out (+) SetToBag({w.item[1]})
                   /\ sts' = sts
        /\ input' = input

\* C12: after a successful write the saver adds 1 to count, then the byte
\* length to size, then sends a new Blob that has no content, the input
\* Blob's fingerprint, size and name and the target path as location; the
\* input Blob keeps its path and its content.
C12_RelocatedBlob ==
    /\ [](IsStore =>
            \A b \in DOMAIN out :
                /\ RelocatedFrom(b, InputNamed(b.name))
                /\ InputNamed(b.name).blob # None
                /\ InputNamed(b.name).path = Join(<<SourceRoot, b.name>>))
    /\ [][IsStore => \A s \in Workers : C12_Step(s)]_vars

\* two stored Blobs were received, relocated, and counted
C12_Witness ==
    /\ IsStore /\ Returned /\ sts.count = 2 /\ sts.size = 3
    /\ Cardinality(DOMAIN out) = 2
    /\ \A b \in DOMAIN out : b.blob = None /\ b.path \in DOMAIN disk


\* the positions of a saver on the skip path and on the error path
NoEmitPcs == {"addSkipCount", "addSkipSize", "addError"}

\* C13: a saver on the skip path or the error path goes back to the input
\* queue without a send; what has been emitted never exceeds count, and
\* when the Store run is done the number of emitted Blobs is count and
\* each emitted Blob stems from an input Blob whose write succeeded (it has
\* a "done saving" line, no skip or error line, and its file was opened by
\* this run and holds the content).
C13_OnlyStoredEmitted ==
    /\ [](IsStore =>
            /\ Emitted <= sts.count
            /\ \A b \in DOMAIN out :
                    LET in == InputNamed(b.name)
                    IN  /\ out[b] = 1
                        /\ StoreLines(StoredMsgs, in.path) = 1
                        /\ StoreLines(SkippedMsgs \cup FailedMsgs, in.path) = 0
                        /\ b.path \in written
                        /\ SubSeq(disk[b.path], 1, in.size) = in.blob[1]
            /\ Returned => Emitted = sts.count)
    /\ [][IsStore =>
            \A s \in Workers :
                (worker[s].pc \in NoEmitPcs /\ worker'[s].pc # worker[s].pc)
                    => /\ worker'[s].pc \in NoEmitPcs \cup {"recv"}
                       /\ out' = out]_vars

\* a run is done that stored one Blob and skipped or failed the other:
\* one Blob was emitted
C13_Witness ==
    /\ IsStore /\ Returned /\ Len(input) = 2
    /\ sts.count = 1 /\ sts.skipCount + sts.errorCount = 1
    /\ Emitted = 1


\* a pool size New accepts
InRange(n) == n >= 1 /\ n <= 20

\* a root that cannot be made absolute: relative, and no working directory
NoAbs(c) == (c.root = <<>> \/ Head(c.root) # "/") /\ ~c.cwdOk

\* C14: New returns an error, and then no FileSystem, exactly when maxSaver
\* or maxLoader is outside [1,20] or the root cannot be made absolute;
\* until New has returned a FileSystem no status exists and no worker is
\* started, and a Load or Store started on the FileSystem runs a pool of
\* the FileSystem's maxLoader or maxSaver workers, a number in [1,20].
C14_NewValidates ==
    LET c == newCall
    IN  /\ ~c.returned => (c.fs = None /\ c.err = None /\ mainpc = "new")
        /\ c.returned =>
                /\ (c.err # None) <=>
                        (~InRange(c.maxSaver) \/ ~InRange(c.maxLoader) \/ NoAbs(c))
                /\ (c.fs = None) <=> (c.err # None)
        /\ c.fs = None =>
                /\ mainpc = "new" /\ sts.typ = "none"
                /\ workerCnt = 0 /\ worker = <<>> /\ wg = 0
        /\ mainpc # "new" =>
                /\ c.fs # None
                /\ InRange(workerCnt)
                /\ workerCnt = (IF IsLoad THEN c.maxLoader ELSE c.maxSaver)
                /\ DOMAIN worker = 1..workerCnt

\* New has refused 21 loaders next to 20 savers, and nothing was started
C14_Witness ==
    /\ newCall.returned /\ newCall.maxSaver = 20 /\ newCall.maxLoader = 21
    /\ ~NoAbs(newCall)
    /\ newCall.err # None /\ newCall.fs = None
    /\ mainpc = "new" /\ workerCnt = 0


\* what loader l does in one step when the load of its path has failed
C15_Step(l) ==
    LET w == worker[l]
    IN  /\ (w.pc = "load" /\ worker'[l].pc = "addError")
                => /\ sts' = sts /\ out' = out
                   /\ worker'[l].path = w.path /\ worker'[l].item = None
        /\ (w.pc = "addError" /\ worker'[l].pc # "addError")
                => /\ sts' = [sts EXCEPT !.errorCount = @ + 1]
                   /\ out' = out
                   /\ worker'[l].pc = "recv"
                   /\ worker'[l].path = <<>> /\ worker'[l].item = None

\* the paths whose load has failed
FailedLoads == {e.path : e \in {e \in DOMAIN log : e.msg = "load"}}

\* C15: a loader whose load failed adds 1 to errorCount and nothing to
\* count and size, sends nothing and goes back to the path queue; the failed
\* path has one failure line, is never loaded, emitted or in a loader's
\* hands again; and a Load run with a failed load that is not done yet can
\* always take a further step, so it stops nowhere short of done.
C15_LoadFailureDropsPath ==
    /\ [][IsLoad => \A l \in Workers : C15_Step(l)]_vars
    /\ [](IsLoad =>
            \A p \in FailedLoads :
                /\ log[LogLine("load", p)] = 1
                /\ LogLine("loaded", p) \notin DOMAIN log
                /\ \A b \in DOMAIN out : b.path # p
                /\ \A l \in Workers : worker[l].path # p
                /\ p \in fileCh.pushed)
    /\ []((IsLoad /\ FailedLoads # {} /\ ~Returned) => ENABLED NextLoadRun)

\* under fair scheduling, a Load run with a failed load reaches done
C15_ReachesDone == (IsLoad /\ FailedLoads # {}) ~> Returned

\* a run is done in which one load failed and a later path was loaded
C15_Witness ==
    /\ IsLoad /\ Returned
    /\ Cardinality(FailedLoads) = 1 /\ sts.errorCount = 1
    /\ sts.count = 1 /\ Emitted = 1
    /\ Cardinality(fileCh.pushed) = 2


\* the directories, the root (0) included, with a failure line msg
FailedDirs(msg) ==
    {d \in 0..MaxEntries :
        /\ d = 0 \/ tree[d].kind = "dir"
        /\ LogLine(msg, EntryPath(d)) \in DOMAIN log}

DirErrors == {"open dir error", "read dir error"}
AllFailedDirs == UNION {FailedDirs(msg) : msg \in DirErrors}

\* path q lies below directory path p
PathBelow(q, p) ==
    Len(q) > Len(p) + 1 /\ SubSeq(q, 1, Len(p)) = p /\ q[Len(p) + 1] = Sep

\* no path below a directory with a failure line msg has been pushed
NonePushedBelow(msgs) ==
    \A e \in DOMAIN log :
        e.msg \in msgs => \A q \in fileCh.pushed : ~PathBelow(q, e.path)

RECURSIVE Below(_, _)
\* entry n lies in the subtree of directory d
Below(n, d) == n # 0 /\ (Parent(n) = d \/ Below(Parent(n), d))

\* the goroutine of load() waits for a loader to receive, or at the barrier
MainAsleep ==
    \/ mainpc = "walk" /\ walk.pc = "send" /\ \A l \in Workers : worker[l].pc # "recv"
    \/ mainpc = "wait" /\ wg # 0

\* loader l has returned, or waits on the open path queue with no sender
LoaderAsleep(l) ==
    \/ worker[l].pc = "exited"
    \/ /\ worker[l].pc = "recv" /\ fileCh.closes = 0
       /\ ~(mainpc = "walk" /\ walk.pc = "send")

\* no goroutine of the Load run can go on
LoadAsleep == MainAsleep /\ \A l \in Workers : LoaderAsleep(l)

\* before a Load run is done, some goroutine can go on exactly when the
\* run can take a step
LoadAsleepIsStuck ==
    (IsLoad /\ ~Returned) => (~LoadAsleep <=> ENABLED NextLoadRun)

\* the non-skipped files outside the subtree of every failed directory
\* have been pushed when the run is done, and in a run that is not done
\* some goroutine can go on
C16_RestWalked ==
    /\ (IsLoad /\ Returned) =>
            \A n \in PlainFiles :
                (~BelowHidden(n) /\ \A d \in AllFailedDirs : ~Below(n, d))
                    => EntryPath(n) \in fileCh.pushed
    /\ (IsLoad /\ ~Returned /\ \E e \in DOMAIN log : e.msg \in DirErrors)
            => ~LoadAsleep

\* the walker's step at a directory it cannot open or read, as C16 has it
C16_StepAbort ==
    (walk.pc = "open" /\ walk' # walk /\ sts'.errorCount # sts.errorCount)
        => /\ sts' = [sts EXCEPT !.errorCount = @ + 1]
           /\ walk' \in {WalkReturn(walk), WalkSetTodo(walk, {})}
           /\ fileCh' = fileCh

\* the walker's step at a directory it cannot open or read, as walkDir has it
C16_StepPartial ==
    (walk.pc = "open" /\ walk' # walk /\ sts'.errorCount # sts.errorCount)
        => /\ sts' = [sts EXCEPT !.errorCount = @ + 1]
           /\ fileCh' = fileCh
           /\ \/ /\ log' = Logged(log, "open dir error", Top(walk.stack).path)
                 /\ walk' = WalkReturn(walk)
              \/ /\ log' = Logged(log, "read dir error", Top(walk.stack).path)
                 /\ \E S \in SUBSET Children(Top(walk.stack).dir) :
                        walk' = WalkSetTodo(walk, S)

\* C16: a directory that cannot be opened or read costs 1
\* errorCount and none of its entries is pushed or descended into, all
\* non-skipped files outside its subtree are pushed, and the run completes.
C16_FailedDirAborted ==
    /\ [][IsLoad => C16_StepAbort]_vars
    /\ [](IsLoad => NonePushedBelow(DirErrors))
    /\ []C16_RestWalked

\* what walkDir does: a directory that cannot be opened costs 1 errorCount
\* and none of its entries is pushed or descended into; a directory whose
\* read fails costs 1 errorCount and the walk goes on with the entries the
\* read returned before it failed; in both cases all non-skipped files
\* outside the subtree are pushed and the run completes.
FailedDirPartial ==
    /\ [][IsLoad => C16_StepPartial]_vars
    /\ [](IsLoad => NonePushedBelow({"open dir error"}))
    /\ []C16_RestWalked

\* the read of the root failed after one of its two files; that file was
\* pushed and loaded, the other was not, and the run is done
C16_Witness ==
    /\ IsLoad /\ Returned
    /\ FailedDirs("read dir error") = {0} /\ sts.errorCount = 1
    /\ {1, 2} \subseteq PlainFiles
    /\ Cardinality(fileCh.pushed) = 1 /\ sts.count = 1


\* what saver s does in one step when a step of storing its Blob fails:
\* nothing is counted or sent at the failure, the files stay as the failing
\* call left them, and the saver counts one error and goes back to the queue
C17_Step(s) ==
    LET w == worker[s]
    IN  /\ (w.pc # "addError" /\ worker'[s].pc = "addError")
                => /\ w.pc \in {"exists", "open", "write"}
                   /\ sts' = sts /\ out' = out
                   /\ DOMAIN disk \subseteq DOMAIN disk'
                   /\ w.pc # "write" => disk' = disk
        /\ (w.pc = "addError" /\ worker'[s].pc # "addError")
                => /\ sts' = [sts EXCEPT !.errorCount = @ + 1]
                   /\ out' = out /\ disk' = disk
                   /\ worker'[s].pc = "recv" /\ worker'[s].item = None

\* a failed content write leaves the metadata record of the Blob behind,
\* in a digest directory without the whole content
C17_MetaLeft(s) ==
    (worker[s].pc = "write" /\ worker'[s].pc = "addError")
        => LET b == worker[s].item[1]
           IN  /\ MetaPath(b) \in DOMAIN disk'
               /\ disk'[MetaPath(b)] = MetaRecord(b)
               /\ BlobFilePath(b) \in DOMAIN disk'
                    => disk'[BlobFilePath(b)] # b.blob[1]

\* what save does: a failing step costs 1 errorCount and nothing else, sends
\* nothing, removes nothing, and the saver takes the next Blob
FailedStoreStep == [][IsStore => \A s \in Workers : C17_Step(s)]_vars

\* C17: a failing step of storing a Blob costs 1 errorCount and nothing
\* else, sends nothing, rolls nothing back, so that a failed content write
\* leaves meta without blob, and the saver takes the next Blob.
C17_StoreFailureNoRollback ==
    [][IsStore => \A s \in Workers : C17_Step(s) /\ C17_MetaLeft(s)]_vars

\* the content write of the one Blob failed half way: the run is done with
\* one error, nothing counted or sent, and the target holds the first byte
\* in the file <hex> and no meta file
C17_Witness ==
    /\ IsStore /\ Returned /\ disk0 = <<>> /\ Len(input) = 1
    /\ sts.errorCount = 1 /\ sts.count = 0 /\ sts.skipCount = 0 /\ Emitted = 0
    /\ LogLine("save blob error", input[1].path) \in DOMAIN log
    /\ DOMAIN disk = {DigestDir(input[1])}
    /\ disk[DigestDir(input[1])] = <<2>> /\ input[1].blob[1] = <<2, 1>>
    /\ MetaPath(input[1]) \notin DOMAIN disk


\* the paths of the batch, and whether no two of its Blobs share one
BatchPaths == {files[i].path : i \in DOMAIN files}
DistinctPaths == Cardinality(BatchPaths) = Len(files)

\* the positions of the error results and of the BlobMeta results
ErrorResults == {i \in DOMAIN midCh : midCh[i].Error # None}
MetaResults == {i \in DOMAIN midCh : midCh[i].BlobMeta # None}

\* the task has returned
DetectDone == dpc = "done"

\* every result is a BlobMeta or an error, not both and not neither
EitherOr == \A i \in DOMAIN midCh : (midCh[i].Error = None) # (midCh[i].BlobMeta = None)

MimePrinted(v) ==
    \E o \in Orders(BatchPaths) : fileCmd.mime = Some(Printed(o, v, "mime"))
DescPrinted(v) ==
    \E o \in Orders(BatchPaths) : fileCmd.desc = Some(Printed(o, v, "desc"))

\* the file command was run: the list file was created and written
ListWritten == \A i \in ErrorResults : midCh[i].Error[1].msg \notin {"tmpfile", "write"}

\* the attribute k of m is there and is v
Has(m, k, v) == k \in DOMAIN m.meta /\ m.meta[k] = v

\* m has the three mime attributes of the line of the path that ends in k
Typed(m, k) ==
    /\ Has(m, "filetype-mime-type", <<"t", k>>)
    /\ Has(m, "filetype-mime-subtype", <<"u", k>>)
    /\ Has(m, "filetype-mime-encoding", <<"e", k>>)

Untyped(m) ==
    DOMAIN m.meta \cap {"filetype-mime-type", "filetype-mime-subtype",
                         "filetype-mime-encoding"} = {}

Described(m, k) == Has(m, "filetype-description", <<"d", k>>)

\* the one BlobMeta result sent for the Blob f, if there is just one
SentFor(f) ==
    {i \in MetaResults : /\ midCh[i].BlobMeta[1].id = HashString(f.hash[1])
                         /\ Has(midCh[i].BlobMeta[1], "filename", f.name)}

OneCorrupted(bad, v) ==
    /\ DistinctPaths /\ ListWritten
    /\ MimePrinted([p \in BatchPaths |-> IF p = bad THEN v ELSE "good"])
    /\ DescPrinted([p \in BatchPaths |-> "good"])

CorruptVariants == {"noSemi", "noSlash", "noEq", "unknown"}

TaskResultsAgree ==
    DetectDone =>
        \E fail \in {"none", "tmpfile", "write"} :
            /\ fail = "none" <=> ListWritten
            /\ midCh \in TaskResults(files, fileCmd, fail)


(* ------------------------------- C21 ----------------------------------- *)

\* the positions of the BlobMeta results and of the error results of a task
TaskMetas(t) ==
    {i \in DOMAIN tasks[t].results : tasks[t].results[i].BlobMeta # None}
TaskErrors(t) ==
    {i \in DOMAIN tasks[t].results : tasks[t].results[i].Error # None}

\* the task has run the file command
TaskRan(t) == tasks[t].pc \in {"send", "return", "done"}

\* a run of the file command failed outright for the task
CallFailed(t) ==
    TaskRan(t) /\ (tasks[t].cmd.mime = None \/ tasks[t].cmd.desc = None)
FailedCalls(t) ==
    (IF tasks[t].cmd.mime = None THEN 1 ELSE 0)
        + (IF tasks[t].cmd.desc = None THEN 1 ELSE 0)

\* the BlobMeta ids of the Blobs of the task's batch, and the ids that the
\* caller has received from the output stream
TaskIds(t) == {HashString(tasks[t].files[j].hash[1]) : j \in 1..tasks[t].n}
PublishedIds == {m[1].id : m \in BagToSet(outCh.got) \ {None}}

\* output has closed the output stream
PipelineDone == outCh.closes > 0

RECURSIVE BatchedFiles(_)
\* the Blobs handed to the tasks ts, batch after batch
BatchedFiles(ts) ==
    IF ts = <<>> THEN <<>> ELSE Head(ts).files \o BatchedFiles(Tail(ts))

\* dispatch has left its loop and started the task of the last batch
Dispatched == disp.pc \in {"wait", "close", "done"}

\* n Blobs in batches of b make this many batches
BatchCount(n, b) == (n + b - 1) \div b

\* C22: with a batch size of at least one, dispatch starts one task per
\* batch, ceil(n/b) tasks for n Blobs; the batches taken in the order of
\* their start are the input stream in its order of arrival, so every Blob
\* is in exactly one batch; every batch but the last has b Blobs and the
\* last has from 1 to b; no two tasks share an array, and what a task
\* reads from its slice is what it was handed.
C22_Batching ==
    disp.batch >= 1 =>
        /\ \A t \in DOMAIN tasks :
                /\ tasks[t].n = Len(tasks[t].files)
                /\ tasks[t].n \in 1..disp.batch
                /\ t < Len(tasks) => tasks[t].n = disp.batch
                /\ SliceOf(tasks[t].arr, tasks[t].n) = tasks[t].files
                /\ \A u \in DOMAIN tasks : tasks[u].arr = tasks[t].arr => u = t
        /\ BatchedFiles(tasks) = SubSeq(dinCh.items, 1, Len(BatchedFiles(tasks)))
        /\ Dispatched =>
                /\ BatchedFiles(tasks) = dinCh.items
                /\ Len(tasks) = BatchCount(Len(dinCh.items), disp.batch)

\* three Blobs in batches of two: a full batch and a last batch of one
C22_Witness ==
    /\ Dispatched /\ disp.batch = 2 /\ Len(dinCh.items) = 3
    /\ Len(tasks) = 2 /\ tasks[1].n = 2 /\ tasks[2].n = 1

(* ------------------------------- C23 ----------------------------------- *)

\* the results the tasks have handed over so far, by kind
SentMetas ==
    SumFn([t \in DOMAIN tasks |->
            Cardinality({i \in TaskMetas(t) : i < tasks[t].k})])
SentErrors ==
    SumFn([t \in DOMAIN tasks |->
            Cardinality({i \in TaskErrors(t) : i < tasks[t].k})])

\* the result output has taken and not yet handled
InHand(pc) == IF outp.pc = pc THEN 1 ELSE 0

\* C23: the result stream is closed at most once, by dispatch as its last
\* step, and only when every task it started has returned, so no task
\* sends or is about to send on the closed stream; the output stream is
\* closed at most once, by output as its last step, and only when the
\* result stream is closed and every result has been received and handled;
\* what is published on the output stream are the BlobMeta results
\* received, never an error result: each of those is logged instead.
C23_Closes ==
    /\ midClosed \in {0, 1} /\ outCh.closes \in {0, 1}
    /\ midClosed = 1 <=> disp.pc = "done"
    /\ midClosed = 1 =>
            \A t \in DOMAIN tasks :
                tasks[t].pc = "done" /\ tasks[t].k = Len(tasks[t].results) + 1
    /\ outCh.closes = 1 <=> outp.pc = "done"
    /\ outCh.closes = 1 => midClosed = 1 /\ outp.r = None
    /\ None \notin BagToSet(outCh.got)
    /\ BagCardinality(outCh.got) + InHand("send") = SentMetas
    /\ LogCount({"detect file type"}) + InHand("warn") = SentErrors

\* both streams are closed after a run in which an error result was logged
\* and BlobMetas were published
C23_Witness ==
    /\ midClosed = 1 /\ outCh.closes = 1
    /\ LogCount({"detect file type"}) > 0
    /\ BagCardinality(outCh.got) > 1

(* ------------------------------- C25 ----------------------------------- *)

\* C25 as stated: in every status JSON the finish time is present exactly
\* when done is true, and the duration is the final one, finish minus
\* start, exactly when done is true.
C25_SnapshotConsistent ==
    reader.json # None =>
        LET j == reader.json[1]
        IN  /\ j.FinishTime # None <=> j.Done
            /\ j.Duration = "finish" <=> j.Done

\* what JSONStr does keep: the finish time is present exactly when done is
\* true and is then the time Finish has set; with done true the duration is
\* the final one; a duration is never computed from the finish time that
\* NewProcessStatus has set.
SnapshotFinishConsistent ==
    reader.json # None =>
        LET j == reader.json[1]
        IN  /\ j.FinishTime # None <=> j.Done
            /\ j.Done => j.FinishTime = Some("finish") /\ j.Duration = "finish"
            /\ j.Duration \in {"finish", "now"}

\* a JSON with done false and no finish time whose duration is the final one
C25_Witness ==
    /\ reader.json # None
    /\ ~reader.json[1].Done /\ reader.json[1].FinishTime = None
    /\ reader.json[1].Duration = "finish"

(* ------------------------------- C24 ----------------------------------- *)

\* C24: once the done flag of a run's status is set it stays set and none
\* of the five counters changes any more, so whatever reads the status
\* later reads done = true and the same counters; by then every worker of
\* the pool has left its loop and, in a Load run, the walker has returned.
C24_DoneIsFinal ==
    /\ [](sts.done = 1 => AllExited /\ (IsLoad => walk.pc = "done"))
    /\ [][sts.done = 1 => sts'.done = 1 /\ Counters(sts') = Counters(sts)]_vars

\* a finished run that counted two Blobs and an error
C24_Witness ==
    /\ Returned /\ sts.done = 1
    /\ sts.count = 2 /\ sts.errorCount = 1

(* ------------------------------- C28 ----------------------------------- *)

\* the counters that a step changes
Changed(s, t) == {i \in 1..5 : Counters(t)[i] # Counters(s)[i]}

\* C28: throughout a Load or Store run the five counters are not negative
\* and no step lowers one; a step changes at most one counter, by the one
\* atomic add it stands for.
C28_CountersMonotone ==
    /\ [](\A i \in 1..5 : Counters(sts)[i] >= 0)
    /\ [][/\ \A i \in 1..5 : Counters(sts')[i] >= Counters(sts)[i]
          /\ Cardinality(Changed(sts, sts')) <= 1]_vars

\* a run that has added to four of the counters
C28_Witness ==
    /\ sts.count > 0 /\ sts.size > 1 /\ sts.errorCount > 0 /\ sts.skipSize > 0

(* ------------------------------- C26 ----------------------------------- *)

\* both Hash objects exist
BothMade == hashCall.a # None /\ hashCall.b # None

\* C26 as stated: a Hash made by NewSha1Hash and one made by
\* NewSha1HashFromHex that have the same algorithm and the same bytes give
\* the same Hex(), the same String() and the same sharded path under a root.
C26_Interchangeable ==
    BothMade =>
        LET a == hashCall.a[1]
            b == hashCall.b[1]
        IN  (a.alg = b.alg /\ a.data = b.data) =>
                /\ Hex(a) = Hex(b)
                /\ HashString(a) = HashString(b)
                /\ BlobPath(TargetRoot, a) = BlobPath(TargetRoot, b)

\* what the constructors do keep: the object made from a hex string has
\* the bytes the string spells, or none is made when the string is no hex
\* string; its Hex() is the string it was made from, so the two objects
\* agree in Hex(), String() and path exactly when the string is the
\* lower-case spelling.
HexSpellingKept ==
    /\ hashCall.called =>
            (hashCall.b = None <=> hashCall.s \notin Spellings(EncodeToString(hashCall.data)))
    /\ BothMade =>
        LET a == hashCall.a[1]
            b == hashCall.b[1]
        IN  /\ a.alg = b.alg /\ a.data = b.data
            /\ Hex(b) = hashCall.s
            /\ Hex(a) = EncodeToString(hashCall.data)
            /\ Hex(a) = Hex(b) <=> hashCall.s = EncodeToString(hashCall.data)
            /\ HashString(a) = HashString(b) <=> Hex(a) = Hex(b)
            /\ BlobPath(TargetRoot, a) = BlobPath(TargetRoot, b) <=> Hex(a) = Hex(b)

\* the same bytes from an upper-case spelling: Hex() differs
C26_Witness ==
    /\ BothMade
    /\ hashCall.a[1].data = hashCall.b[1].data
    /\ hashCall.s # EncodeToString(hashCall.data)
    /\ Hex(hashCall.a[1]) # Hex(hashCall.b[1])

(* ------------------------------- C27 ----------------------------------- *)

\* C27 as stated: between the calls of Load, Free and ReadCloser a source
\* Blob has its content and its hash both set or both absent.
C27_ContentIffHash ==
    fblob.f.blob = None <=> fblob.f.hash = None

\* C27: a source Blob with content has the size and the hash of that
\* content; a Load that fails leaves the Blob as it was and a Load that
\* succeeds sets content, size and hash together; a Blob has a hash
\* without content only when Free was the last call to change it: Free
\* clears the content and keeps size and hash, and ReadCloser then fails.
C27_LoadSetsTogether ==
    /\ [](LET f == fblob.f
          IN  /\ f.blob # None =>
                    /\ f.size = Len(f.blob[1])
                    /\ f.hash = Some(NewSha1Hash(Sha1Sum(f.blob[1])))
              /\ f.hash = None => f.blob = None /\ f.size = 0
              /\ (f.hash # None /\ f.blob = None) => fblob.freed
              /\ (fblob.last = "ReadCloser" /\ fblob.err) <=>
                    (fblob.last = "ReadCloser" /\ f.blob = None))
    /\ [][(fblob'.last = "Load" /\ fblob' # fblob) =>
            IF fblob'.err THEN fblob'.f = fblob.f
            ELSE /\ fblob'.f.blob # None /\ fblob'.f.hash # None
                 /\ fblob.f.blob = None => fblob'.f.blob = Some(fblob.file)]_vars

\* a Blob that was loaded and then freed, and whose next Load failed
C27_Witness ==
    /\ fblob.last = "Load" /\ fblob.err
    /\ fblob.f.hash # None /\ fblob.f.blob = None

(* ------------------------------- C30 ----------------------------------- *)

\* the loaders that hold the path p and have not yet logged its outcome
Holders(p) ==
    {w \in Workers : worker[w].path = p
                        /\ worker[w].pc \in {"load", "addError", "addCount", "addSize"}}

\* the outcomes logged for the path p: loaded, or failed to load
Outcomes(p) ==
    SumFn([e \in {e \in DOMAIN log : e.path = p /\ e.msg \in {"loaded", "load"}}
                |-> log[e]])

\* C30: in a Load run the path queue is closed at most once, by load()
\* and only after the walker has returned, and it is closed from then on;
\* every path pushed was received by exactly one loader, which holds it or
\* has logged its one outcome, and no other path is held or logged; a
\* loader leaves its loop only with the queue closed and nothing left to
\* receive.
C30_PathQueue ==
    /\ [](/\ fileCh.closes \in {0, 1}
          /\ fileCh.closes = 1 <=> mainpc \in {"wait", "returned"} \cup FinishPcs
          /\ fileCh.closes = 1 => walk.pc = "done"
          /\ \A p \in fileCh.pushed : Cardinality(Holders(p)) + Outcomes(p) = 1
          /\ \A w \in Workers :
                /\ worker[w].pc \notin {"none", "recv", "exited"} =>
                        worker[w].path \in fileCh.pushed
                /\ worker[w].pc = "exited" => fileCh.closes = 1
          /\ \A e \in DOMAIN log :
                e.msg \in {"loaded", "load"} => e.path \in fileCh.pushed)
    /\ [][\A w \in Workers :
            (worker[w].pc # "exited" /\ worker'[w].pc = "exited") =>
                /\ worker[w].pc = "recv"
                /\ fileCh.closes = 1 /\ walk.pc = "done"]_vars

\* two loaders, two paths pushed, each loader received one, all have left
C30_Witness ==
    /\ IsLoad /\ Returned /\ workerCnt = 2
    /\ Cardinality(fileCh.pushed) = 2
    /\ \A p \in fileCh.pushed : Outcomes(p) = 1
    /\ AllExited

(* ------------------------------- C29 ----------------------------------- *)

\* the steps of a run's own goroutines, and of the caller of Store that
\* closes the input queue
NextOwn ==
    \/ NextLoad
    \/ NextStore
    \/ Finish

\* a Load or Store run whose goroutines are scheduled fairly, whose
\* file-system calls return and whose input queue gets closed; nothing is
\* assumed of the reader of the output queue
SpecOwnFair == Spec /\ WF_vars(NextOwn)

\* the reader of the output queue takes what a worker offers
Drained == WF_vars(\E w \in Workers : Receive(w))

\* the done flag is set and the done channel is closed
RunDone == sts.done = 1 /\ sts.doneChanCloses = 1

\* C29 as stated: with fair scheduling, returning file-system calls and a
\* closed input queue, every run sets its done flag and closes its done
\* channel.
C29_Completes == <>RunDone

\* C29: with fair scheduling, returning file-system calls and a closed
\* input queue, every run whose output queue is read for as long as a
\* worker offers a Blob sets its done flag and closes its done channel.
C29_CompletesIfDrained == Drained => <>RunDone

\* a run is done that emitted two Blobs
C29_Witness == RunDone /\ Emitted = 2

(* ------------------------------- C33 ----------------------------------- *)

\* the savers that have counted the Blob in their hands as stored and
\* still hold its content
CountedSavers == {s \in Workers : IsStore /\ worker[s].pc = "addSize"}

\* C33 as stated: once a saver has counted a Blob as stored, the file at
\* the Blob's content path holds exactly the Blob's bytes, so that
\* blobExists finds the Blob there, whatever the path held before the run.
C33_StoredFileExact ==
    \A s \in CountedSavers :
        /\ worker[s].path \in DOMAIN disk
        /\ disk[worker[s].path] = worker[s].item[1].blob[1]
        /\ blobExists(disk, worker[s].path, worker[s].item[1].size)

\* what saveFile does keep: the file begins with the Blob's bytes, and it
\* is longer than the Blob only where the target held a longer file at
\* that path before the run, whose tail is then still there
StoredFileBeginsWithBlob ==
    \A s \in CountedSavers :
        LET p == worker[s].path
            bytes == worker[s].item[1].blob[1]
        IN  /\ p \in DOMAIN disk
            /\ SubSeq(disk[p], 1, Len(bytes)) = bytes
            /\ disk[p] # bytes =>
                    /\ p \in DOMAIN disk0
                    /\ Len(disk0[p]) > Len(bytes)
                    /\ disk[p] = WriteAt0(disk0[p], bytes)

\* a Blob counted as stored with no failing call, in a file that has kept
\* the length of the longer file found there: blobExists does not find it
C33_Witness ==
    \E s \in CountedSavers :
        /\ faults = 0 /\ sts.count = 1
        /\ Len(disk[worker[s].path]) > worker[s].item[1].size
        /\ ~blobExists(disk, worker[s].path, worker[s].item[1].size)

(* ------------------------------- C34 ----------------------------------- *)

\* the paths the walker has pushed whose Blob has not been received from
\* the output queue and whose load has not been dropped as an error
InFlight == Cardinality(fileCh.pushed) - Emitted - LogCount({"load"})

\* the loaders that hold a path or a Blob, and those that hold content
Busy == {w \in Workers : worker[w].pc \in {"load", "addError", "addCount", "addSize", "send"}}
Holding == {w \in Workers : worker[w].item # None /\ worker[w].item[1].blob # None}

\* C34: in a Load run with N loaders at most N pushed paths are in
\* flight, one per busy loader, so at most N file contents are held; the
\* walker pushes a path only into the hands of a loader that waits at its
\* receive, never while all N loaders are busy or blocked at their send.
C34_Backpressure ==
    /\ [](/\ InFlight = Cardinality(Busy)
          /\ InFlight <= workerCnt
          /\ Holding \subseteq Busy
          /\ Cardinality(Holding) <= workerCnt)
    /\ [][fileCh'.pushed # fileCh.pushed =>
            /\ Cardinality(fileCh'.pushed) = Cardinality(fileCh.pushed) + 1
            /\ Cardinality(Busy) < workerCnt
            /\ \E w \in Workers : worker[w].pc = "recv" /\ worker'[w].pc = "load"]_vars

\* every loader blocked at its send with a Blob in its hands, and the
\* walker blocked at its push of one more path
C34_Witness ==
    /\ IsLoad
    /\ \A w \in Workers : worker[w].pc = "send"
    /\ walk.pc = "send" /\ walk.cur[1].path \notin fileCh.pushed
    /\ InFlight = workerCnt /\ Cardinality(Holding) = workerCnt

(* ------------------------------- C35 ----------------------------------- *)

\* the workers that have counted the Blob in their hands and not yet
\* handed it over, and those among them that have added its size too
CountedNotSent == {w \in Workers : worker[w].pc \in {"addSize", "send"}}
SizedNotSent == {w \in Workers : worker[w].pc = "send"}

\* C35: in a Load or Store run with W workers the Blobs received from the
\* output queue are never more than count and never fewer than count - W:
\* count is ahead by one for each worker that has counted its Blob and not
\* yet handed it over, and the sizes received are never more than size; a
\* Blob is handed over only by a worker that has added to both.
C35_CountAheadOfEmitted ==
    /\ [](/\ Emitted <= sts.count
          /\ sts.count <= Emitted + workerCnt
          /\ sts.count = Emitted + Cardinality(CountedNotSent)
          /\ EmittedSize <= sts.size
          /\ sts.size =
                EmittedSize
                    + SumFn([w \in SizedNotSent |-> worker[w].item[1].size]))
    /\ [][\A w \in Workers :
            (worker[w].pc = "send" /\ worker'[w].pc # "send") =>
                /\ Emitted' = Emitted + 1
                /\ sts' = sts
                /\ sts.count >= Emitted']_vars

\* a Blob has been received and every worker stands at its send with a
\* counted Blob: count is ahead of the Blobs received by the pool size
C35_Witness ==
    /\ Emitted >= 1
    /\ \A w \in Workers : worker[w].pc = "send"
    /\ sts.count = Emitted + workerCnt

(* ------------------------------- C36 ----------------------------------- *)

\* the output queue is closed and no worker has a Blob left to hand over
QueueClosedAndDrained ==
    /\ sts.blobChanCloses = 1
    /\ \A w \in Workers : worker[w].pc = "exited"

\* C36 as stated: whenever the done flag is set or the done channel is
\* closed, the output queue is closed already and every Blob a worker
\* emitted has been received.
C36_DoneAfterQueueClosed ==
    (sts.done = 1 \/ sts.doneChanCloses > 0) => QueueClosedAndDrained

\* C36, amended: whenever the done channel is closed the output queue is
\* closed already, and whenever the done flag is set or the output queue
\* is closed every worker has exited, so that no Blob is received from the
\* queue from then on; with the flag set and the queue still open, Finish
\* stands right before its close of the queue.
C36_DoneChanAfterQueueClosed ==
    /\ [](/\ sts.doneChanCloses > 0 => QueueClosedAndDrained /\ sts.done = 1
          /\ sts.blobChanCloses > 0 => sts.done = 1
          /\ sts.done = 1 =>
                /\ \A w \in Workers : worker[w].pc = "exited"
                /\ wg = 0
                /\ sts.blobChanCloses = 0 <=> mainpc = "finishCloseBlob")
    /\ [][out' # out =>
            sts.done = 0 /\ sts.blobChanCloses = 0 /\ sts.doneChanCloses = 0]_vars

\* the done channel is closed after a run in which Blobs were received
C36_Witness ==
    /\ sts.doneChanCloses = 1 /\ QueueClosedAndDrained
    /\ Emitted >= 1 /\ sts.count = Emitted

\* the done flag reads true while the output queue is not yet closed
DoneFlagBeforeQueueClosed ==
    /\ sts.done = 1 /\ sts.blobChanCloses = 0 /\ sts.doneChanCloses = 0
    /\ Emitted >= 1

(* ------------------------------- C37 ----------------------------------- *)

\* the positions at which the BlobMeta of the path p, as the map has it
\* now, was sent
SentAs(p) == {i \in MetaResults : midCh[i].BlobMeta[1] = path2meta[p]}

\* the range over path2meta has started
Emitting == dpc \in {"emit", "done"}

\* C37: a task sends the BlobMeta of each path of its map at most once,
\* and only from its final range over the map, which starts after both
\* runs of the file command have been parsed to their last line or have
\* failed; from the start of that range on no attribute is added to any
\* BlobMeta, so every BlobMeta sent is as the map has it at the end.
C37_SentOnceWhenComplete ==
    /\ [](/\ MetaResults # {} => Emitting /\ lines = <<>>
          /\ Emitting =>
                /\ \A p \in DOMAIN path2meta :
                        Cardinality(SentAs(p)) = IF p \in toEmit THEN 0 ELSE 1
                /\ \A i \in MetaResults : \E p \in DOMAIN path2meta : i \in SentAs(p)
                /\ Cardinality(MetaResults) = Cardinality(DOMAIN path2meta \ toEmit))
    /\ [][/\ Emitting => path2meta' = path2meta
          /\ (Len(midCh') > Len(midCh) /\ midCh'[Len(midCh')].BlobMeta # None) =>
                /\ dpc = "emit" /\ lines = <<>>
                /\ path2meta' = path2meta
                /\ Len(midCh') = Len(midCh) + 1]_vars

\* both passes have attached their attributes to the BlobMetas of two
\* paths; one BlobMeta is sent with all of them, the other is yet to send
C37_Witness ==
    /\ dpc = "emit" /\ Cardinality(DOMAIN path2meta) = 2
    /\ Cardinality(toEmit) = 1 /\ Cardinality(MetaResults) = 1
    /\ \A p \in DOMAIN path2meta :
            /\ Typed(path2meta[p], p[Len(p)])
            /\ Described(path2meta[p], p[Len(p)])

(* ------------------------------- C38 ----------------------------------- *)

\* C38 as stated: whatever batch size DetectMimeType was called with,
\* dispatch writes a Blob it has received at an index i of its array with
\* 0 <= i < batch, and so never indexes the array out of its bounds.
C38_IndexInBounds ==
    [][dinCh'.next > dinCh.next =>
            /\ 0 <= disp.i /\ disp.i < disp.batch
            /\ disp.i + 1 \in DOMAIN arrays[disp.arr]
            /\ disp'.pc # "panic"]_vars

\* what dispatch does keep: with a batch size of at least 1 the index
\* stays below batch, the array in use has batch elements, and no write
\* is out of range
IndexInBoundsFromBatchOne ==
    disp.batch >= 1 =>
        /\ disp.pc # "panic"
        /\ disp.pc = "recv" =>
                /\ 0 <= disp.i /\ disp.i < disp.batch
                /\ Len(arrays[disp.arr]) = disp.batch

\* DetectMimeType was called with batch 0: dispatch has received the first
\* Blob and has panicked at files[0] = f, an index out of range
C38_Witness ==
    /\ disp.batch = 0 /\ disp.pc = "panic" /\ disp.i = 0
    /\ dinCh.next = 2 /\ arrays = <<MakeFiles(0)>>
    /\ tasks = <<>>

(* ------------------------------- C39 ----------------------------------- *)

\* the BlobMeta ids of the Blobs of the input stream
InputIds == {HashString(dinCh.items[k].hash[1]) : k \in DOMAIN dinCh.items}

\* every task has finished, the output stream is closed, and the caller
\* has received a BlobMeta for every Blob of the input stream
Delivered ==
    /\ disp.pc = "done" /\ dwg = 0
    /\ \A t \in DOMAIN tasks : tasks[t].pc = "done"
    /\ outCh.closes = 1
    /\ InputIds \subseteq PublishedIds

\* C39 as stated: with the input stream closed in the end, every run of
\* the file command returning and the caller receiving, under fair
\* scheduling every task finishes and the output stream is closed, a
\* BlobMeta having been delivered before for every input Blob.
C39_ClassifierCompletes == <>Delivered

\* what the pipeline does keep: it completes so when the batch size is at
\* least 1 or the input stream carries no Blob
CompletesFromBatchOne ==
    (disp.batch >= 1 \/ dinCh.items = <<>>) => <>Delivered

\* dispatch has panicked at the first Blob of a non-empty input stream:
\* no task was started and output waits on a result stream nobody closes
C39_Witness ==
    /\ disp.pc = "panic" /\ tasks = <<>>
    /\ Len(dinCh.items) >= 1 /\ ~dinCh.closed
    /\ outp.pc = "recv" /\ midClosed = 0 /\ outCh.closes = 0
    /\ ~ENABLED NextPipeline

(* ------------------------------- C31 ----------------------------------- *)

\* the Load run of the copy is over: its walker and loaders have left
LoadOver ==
    /\ walk.pc = "done" /\ fileCh.closes = 1 /\ wg = 0
    /\ \A l \in Workers : worker[l].pc = "exited"

CopyDone ==
    /\ sts.doneChanCloses = 1 /\ dr.sts.doneChanCloses = 1
    /\ dr.main = "done"

\* the savers that stand at their send on the Blob channel of dr
BlockedSavers == {s \in Workers : dr.pc = "wait" /\ dr.saver[s].pc = "send"}

\* C32 as stated: the copy of main terminates for every source tree: the
\* done channels of the load status and of the store status are both
\* closed in the end.
C32_CopyTerminates == <>CopyDone

\* what the copy does keep: it ends with both done channels closed or
\* with a saver blocked at its send, and the store status of a run that
\* has counted a Blob as stored is never done
CopyEndsDoneOrBlocked ==
    /\ <>(CopyDone \/ BlockedSavers # {})
    /\ [](dr.sts.count > 0 =>
            /\ dr.sts.done = 0 /\ dr.sts.doneChanCloses = 0
            /\ dr.main # "done")
    /\ [](BlockedSavers # {} => [](BlockedSavers # {}))

\* one file was loaded and stored: the load status is done, main waits for
\* the done channel of the store status, store() waits for its savers, and
\* the saver stands at a send nobody receives; no goroutine can take a step
C32_Witness ==
    /\ sts.doneChanCloses = 1 /\ sts.count = 1
    /\ dr.main = "waitStore" /\ dr.pc = "wait" /\ dr.wg > 0
    /\ dr.sts.count = 1 /\ dr.sts.done = 0
    /\ Cardinality(BlockedSavers) = 1
    /\ ~ENABLED NextCopy

=============================================================================
